---- MODULE Spec2Model ----
(***************************************************************************)
(* The document ingestion pipeline of src/ingestion: ingest.py (main,      *)
(* process_file), ocr.py (process_document), entity_extraction.py          *)
(* (EntityExtractor.extract), embeddings.py (EmbeddingsClient.generate,    *)
(* build_text_for_embedding) and typesense_client.py (TypeSenseClient).    *)
(*                                                                         *)
(* Python strings are sequences of one-character strings, so that len,     *)
(* strip, slicing, join and f-string formatting are computed.  JSON values *)
(* are tagged records [t, v].  The external backends (Drive, pdfplumber,   *)
(* pdf2image, the OCR engine, the OpenAI APIs, the Typesense server) are   *)
(* the environment: every answer they can give is an input of an action.   *)
(***************************************************************************)
EXTENDS Integers, Sequences, FiniteSets, TLC

VARIABLES
    corpus,               \* the Drive folder's listing (list_files), fixed in a behaviour
    collection_exists,    \* whether the Typesense collection exists
    index,                \* the collection's documents, in insertion order
    clock,                \* datetime.now(), in seconds
    runs,                 \* number of pipeline processes started so far
    pc,                   \* position of the running main(), "idle" between runs
    args,                 \* the parsed command line of the running main()
    existing_paths,       \* main: existing_paths
    files_to_process,     \* main: files_to_process
    processed_documents,  \* main: processed_documents (the pending batch)
    failed_count,         \* main: failed_count
    fi,                   \* main: position of `file` in files_to_process
    cur,                  \* process_file: the locals of the file being processed
    report,               \* main: what the SUMMARY block printed
    hist,                 \* history of the running main(): backend calls it made
    fin,                  \* input of the component exercised on its own
    fout                  \* its result

vars == <<corpus, collection_exists, index, clock, runs, pc, args, existing_paths,
          files_to_process, processed_documents, failed_count, fi, cur, report,
          hist, fin, fout>>

-----------------------------------------------------------------------------
(* Python values *)

None == [t |-> "null"]
PyStr(s) == [t |-> "str", v |-> s]
PyList(l) == [t |-> "list", v |-> l]
PyObj(o) == [t |-> "obj", v |-> o]

Whitespace == {" ", "\t", "\n", "\r", "\f"}

Min(a, b) == IF a <= b THEN a ELSE b
Max(a, b) == IF a >= b THEN a ELSE b

RECURSIVE LStrip(_)
LStrip(s) == IF s # <<>> /\ Head(s) \in Whitespace THEN LStrip(Tail(s)) ELSE s

RECURSIVE RStrip(_)
RStrip(s) ==
    IF s # <<>> /\ s[Len(s)] \in Whitespace THEN RStrip(SubSeq(s, 1, Len(s) - 1)) ELSE s

\* str.strip()
Strip(s) == RStrip(LStrip(s))

\* s[:n] for an integer n (a negative n counts from the end)
SliceTo(s, n) ==
    IF n >= 0 THEN SubSeq(s, 1, Min(n, Len(s))) ELSE SubSeq(s, 1, Max(Len(s) + n, 0))

\* s[a:b] for 0 <= a <= b
Slice(s, a, b) == SubSeq(s, a + 1, Min(b, Len(s)))

\* s.startswith(p)
StartsWith(s, p) == Len(s) >= Len(p) /\ SubSeq(s, 1, Len(p)) = p

RECURSIVE Join(_, _)
\* sep.join(parts) for a list of strings
Join(sep, parts) ==
    IF parts = <<>> THEN <<>>
    ELSE IF Len(parts) = 1 THEN parts[1]
    ELSE parts[1] \o sep \o Join(sep, Tail(parts))

Digit(d) == CASE d = 0 -> "0" [] d = 1 -> "1" [] d = 2 -> "2" [] d = 3 -> "3"
              [] d = 4 -> "4" [] d = 5 -> "5" [] d = 6 -> "6" [] d = 7 -> "7"
              [] d = 8 -> "8" [] d = 9 -> "9"

RECURSIVE IntToStr(_)
\* str(n) for n >= 0
IntToStr(n) == IF n < 10 THEN <<Digit(n)>> ELSE IntToStr(n \div 10) \o <<Digit(n % 10)>>

Range(s) == {s[k] : k \in 1..Len(s)}

-----------------------------------------------------------------------------
(* ocr.py *)

DOCX_MIME_TYPE == <<"a","p","p","l","i","c","a","t","i","o","n","/","v","n","d",".","o","p","e","n","x","m","l","f","o","r","m","a","t","s","-","o","f","f","i","c","e","d","o","c","u","m","e","n","t",".","w","o","r","d","p","r","o","c","e","s","s","i","n","g","m","l",".","d","o","c","u","m","e","n","t">>
PDF_MIME_TYPE == <<"a","p","p","l","i","c","a","t","i","o","n","/","p","d","f">>
IMAGE_PREFIX == <<"i","m","a","g","e","/">>
PNG_MIME_TYPE == IMAGE_PREFIX \o <<"p","n","g">>

min_direct_chars == 200
max_ocr_pages == 50

\* f"--- Page {i + 1} ---\n{text}" with i counted from 0, so k = i + 1
PageBlock(k, text) ==
    <<"-","-","-"," ","P","a","g","e"," ">> \o IntToStr(k) \o <<" ","-","-","-","\n">> \o text

\* the entries f"--- Page {i + 1} ---\n{text}" of the pages whose text.strip() is non-empty
RECURSIVE PageBlocks(_, _)
PageBlocks(texts, k) ==
    IF k > Len(texts) THEN <<>>
    ELSE (IF Strip(texts[k]) # <<>> THEN <<PageBlock(k, texts[k])>> ELSE <<>>)
         \o PageBlocks(texts, k + 1)

\* An image is what the OCR backend does with it: [ocr_ok, text].
\* TesseractOCR.extract_text / GoogleVisionOCR.extract_text: the backend's text,
\* "" when it raises
OCR_extract_text(image) == IF image.ocr_ok THEN image.text ELSE <<>>

\* OCREngine.process_images
process_images(images) ==
    Join(<<"\n", "\n">>, PageBlocks([k \in 1..Len(images) |-> OCR_extract_text(images[k])], 1))

\* DirectPDFExtractor.extract_text; content.pdf_ok is whether pdfplumber reads the
\* bytes, content.pages the embedded text of each page ("" for None)
DirectPDF_extract_text(content) ==
    IF content.pdf_ok THEN Join(<<"\n", "\n">>, PageBlocks(content.pages, 1)) ELSE <<>>

\* "\t".join(cell.text.strip() for cell in row.cells if cell.text.strip())
RECURSIVE RowCells(_)
RowCells(row) ==
    IF row = <<>> THEN <<>>
    ELSE (IF Strip(Head(row)) # <<>> THEN <<Strip(Head(row))>> ELSE <<>>) \o RowCells(Tail(row))

RECURSIVE NonBlank(_)
NonBlank(texts) ==
    IF texts = <<>> THEN <<>>
    ELSE (IF Strip(Head(texts)) # <<>> THEN <<Head(texts)>> ELSE <<>>) \o NonBlank(Tail(texts))

RECURSIVE NonEmpty(_)
NonEmpty(texts) ==
    IF texts = <<>> THEN <<>>
    ELSE (IF Head(texts) # <<>> THEN <<Head(texts)>> ELSE <<>>) \o NonEmpty(Tail(texts))

RowText(row) == Join(<<"\t">>, RowCells(row))

\* extract_docx_text; content.docx_ok is whether python-docx reads the bytes
extract_docx_text(content) ==
    IF content.docx_ok
    THEN Join(<<"\n">>,
              NonBlank(content.paragraphs)
                  \o NonEmpty([k \in 1..Len(content.rows) |-> RowText(content.rows[k])]))
    ELSE <<>>

\* pdf_to_images: convert_from_bytes(last_page=max_pages); raises when
\* content.raster_ok is false
pdf_to_images(content) ==
    IF content.raster_ok
    THEN [raised |-> FALSE, images |-> SliceTo(content.scans, max_ocr_pages)]
    ELSE [raised |-> TRUE, images |-> <<>>]

\* the test with > in the place of >=
DirectTextIsEnough_gt(direct_text) == Len(Strip(direct_text)) > min_direct_chars

\* `direct_text` is acceptable: len(direct_text.strip()) >= min_direct_chars
DirectTextIsEnough(direct_text) == Len(Strip(direct_text)) >= min_direct_chars

\* a process_document that sends a Word document with little text to the OCR
\* backend, as it does a PDF
process_document_docx_fallback(content, mime_type) ==
    LET direct_text == IF mime_type = DOCX_MIME_TYPE THEN extract_docx_text(content)
                       ELSE DirectPDF_extract_text(content)
        r == pdf_to_images(content)
    IN  IF mime_type \in {DOCX_MIME_TYPE, PDF_MIME_TYPE}
        THEN IF DirectTextIsEnough(direct_text)
             THEN [raised |-> FALSE, text |-> direct_text,
                   raster_calls |-> 0, ocr_calls |-> 0, direct_calls |-> 1]
             ELSE IF r.raised
             THEN [raised |-> TRUE, text |-> <<>>,
                   raster_calls |-> 1, ocr_calls |-> 0, direct_calls |-> 1]
             ELSE [raised |-> FALSE, text |-> process_images(r.images),
                   raster_calls |-> 1, ocr_calls |-> Len(r.images), direct_calls |-> 1]
        ELSE IF StartsWith(mime_type, IMAGE_PREFIX) /\ content.image_ok
        THEN [raised |-> FALSE, text |-> OCR_extract_text(content.image),
              raster_calls |-> 0, ocr_calls |-> 1, direct_calls |-> 0]
        ELSE [raised |-> TRUE, text |-> <<>>,
              raster_calls |-> 0, ocr_calls |-> 0, direct_calls |-> 0]

\* a process_document that returns no text for a type it does not know
process_document_lenient(content, mime_type) ==
    [raised |-> FALSE,
     text |-> IF mime_type = DOCX_MIME_TYPE THEN extract_docx_text(content)
              ELSE IF mime_type = PDF_MIME_TYPE THEN DirectPDF_extract_text(content)
              ELSE IF StartsWith(mime_type, IMAGE_PREFIX) /\ content.image_ok
              THEN OCR_extract_text(content.image)
              ELSE <<>>,
     raster_calls |-> 0, ocr_calls |-> 0, direct_calls |-> 0]

\* process_document(content, mime_type, ocr_engine).  The result tells whether the
\* call raised, the text returned, and how often the rasterizer and the OCR
\* backend were called.
process_document(content, mime_type) ==
    IF mime_type = DOCX_MIME_TYPE
    THEN [raised |-> FALSE, text |-> extract_docx_text(content),
          raster_calls |-> 0, ocr_calls |-> 0, direct_calls |-> 0]
    ELSE IF mime_type = PDF_MIME_TYPE
    THEN LET direct_text == DirectPDF_extract_text(content)
             r == pdf_to_images(content)
         IN  IF DirectTextIsEnough(direct_text)
             THEN [raised |-> FALSE, text |-> direct_text,
                   raster_calls |-> 0, ocr_calls |-> 0, direct_calls |-> 1]
             ELSE IF r.raised
             THEN [raised |-> TRUE, text |-> <<>>,
                   raster_calls |-> 1, ocr_calls |-> 0, direct_calls |-> 1]
             ELSE [raised |-> FALSE, text |-> process_images(r.images),
                   raster_calls |-> 1, ocr_calls |-> Len(r.images), direct_calls |-> 1]
    ELSE IF StartsWith(mime_type, IMAGE_PREFIX)
    THEN IF content.image_ok
         THEN [raised |-> FALSE, text |-> OCR_extract_text(content.image),
               raster_calls |-> 0, ocr_calls |-> 1, direct_calls |-> 0]
         ELSE [raised |-> TRUE, text |-> <<>>,
               raster_calls |-> 0, ocr_calls |-> 0, direct_calls |-> 0]
    ELSE [raised |-> TRUE, text |-> <<>>,
          raster_calls |-> 0, ocr_calls |-> 0, direct_calls |-> 0]

-----------------------------------------------------------------------------
(* entity_extraction.py *)

entity_max_chars == 15000

TRUNCATION_MARKER == <<"\n","\n","[","D","o","c","u","m","e","n","t"," ","t","r","u","n","c","a","t","e","d",".",".",".","]">>

\* the document text placed after EXTRACTION_PROMPT in the chat request
truncated_text(text) ==
    SliceTo(text, entity_max_chars)
        \o (IF Len(text) > entity_max_chars THEN TRUNCATION_MARKER ELSE <<>>)

EmptyList == PyList(<<>>)
EmptyStr == PyStr(<<>>)

\* EntityExtractor._empty_result
empty_result ==
    [people |-> EmptyList, locations |-> EmptyList, dates |-> EmptyList,
     summary |-> EmptyStr, publication_date |-> EmptyStr]

\* a lookup that gives None for a missing key
DictGet_or_none(obj, key, default) == IF key \in DOMAIN obj.v THEN obj.v[key] ELSE None

\* dict.get(key, default) on a parsed JSON object
DictGet(obj, key, default) == IF key \in DOMAIN obj.v THEN obj.v[key] ELSE default

\* EntityExtractor.extract, given the chat backend's answer:
\*   [kind |-> "call_error"]    chat.completions.create raised
\*   [kind |-> "no_content"]    message.content is None (.strip() raises)
\*   [kind |-> "invalid_json"]  json.loads raised JSONDecodeError on the content
\*                              (after the ``` fence, if any, was stripped)
\*   [kind |-> "json", value |-> v]  json.loads returned v
\* A value that is no object has no .get: AttributeError, caught by `except Exception`.
EntityExtractor_extract(reply) ==
    IF reply.kind # "json" THEN empty_result
    ELSE IF reply.value.t # "obj" THEN empty_result
    ELSE [people |-> DictGet(reply.value, "people", EmptyList),
          locations |-> DictGet(reply.value, "locations", EmptyList),
          dates |-> DictGet(reply.value, "dates", EmptyList),
          summary |-> DictGet(reply.value, "summary", EmptyStr),
          publication_date |-> DictGet(reply.value, "publication_date", EmptyStr)]

-----------------------------------------------------------------------------
(* embeddings.py *)

embed_max_chars == 30000
max_retries == 3
ocr_preview_chars == 5000

\* bool(v)
Truthy(v) ==
    CASE v.t = "null" -> FALSE
      [] v.t = "str" -> v.v # <<>>
      [] v.t = "list" -> v.v # <<>>
      [] v.t = "num" -> v.v # 0
      [] v.t = "obj" -> DOMAIN v.v # {}

IsStrList(v) == v.t = "list" /\ \A k \in 1..Len(v.v) : v.v[k].t = "str"

\* sep.join(v) raises TypeError unless v is a string or a list of strings
JoinRaises(v) == ~(v.t = "str" \/ IsStrList(v))

\* sep.join(v) where it does not raise
JoinValue(sep, v) ==
    IF v.t = "str" THEN Join(sep, [k \in 1..Len(v.v) |-> <<v.v[k]>>])
    ELSE Join(sep, [k \in 1..Len(v.v) |-> v.v[k].v])

\* repr() of a string without quotes or backslashes
Quoted(s) == <<"'">> \o s \o <<"'">>

\* f"{v}" for a string, None, a non-negative integer or a list of strings
Format(v) ==
    CASE v.t = "str" -> v.v
      [] v.t = "null" -> <<"N","o","n","e">>
      [] v.t = "num" -> IntToStr(v.v)
      [] v.t = "list" -> <<"[">> \o Join(<<",", " ">>, [k \in 1..Len(v.v) |-> Quoted(v.v[k].v)])
                              \o <<"]">>

\* a preview that is the whole text
ocr_preview_whole(ocr_content) == ocr_content

\* line 83: ocr_content[:5000]
ocr_preview(ocr_content) == SliceTo(ocr_content, ocr_preview_chars)

\* build_text_for_embedding: [raised, text]
build_text_for_embedding(ocr_content, summary, people, locations, dates) ==
    LET part1 == IF Truthy(summary)
                 THEN <<(<<"S","u","m","m","a","r","y",":"," ">> \o Format(summary))>> ELSE <<>>
        part2 == IF Truthy(people)
                 THEN <<(<<"P","e","o","p","l","e"," ","m","e","n","t","i","o","n","e","d",":"," ">>
                         \o JoinValue(<<",", " ">>, people))>> ELSE <<>>
        part3 == IF Truthy(locations)
                 THEN <<(<<"L","o","c","a","t","i","o","n","s",":"," ">>
                         \o JoinValue(<<",", " ">>, locations))>> ELSE <<>>
        part4 == IF Truthy(dates)
                 THEN <<(<<"D","a","t","e","s",":"," ">> \o JoinValue(<<",", " ">>, dates))>>
                 ELSE <<>>
        part5 == IF ocr_content # <<>>
                 THEN <<(<<"C","o","n","t","e","n","t",":"," ">>
                         \o ocr_preview(ocr_content))>> ELSE <<>>
    IN  IF \/ Truthy(people) /\ JoinRaises(people)
           \/ Truthy(locations) /\ JoinRaises(locations)
           \/ Truthy(dates) /\ JoinRaises(dates)
        THEN [raised |-> TRUE, text |-> <<>>]
        ELSE [raised |-> FALSE,
              text |-> Join(<<"\n", "\n">>, part1 \o part2 \o part3 \o part4 \o part5)]

\* a generate that sends the text as it is
embed_input_raw(text) == text

\* EmbeddingsClient.generate, lines 33-35: the text sent to the backend
embed_input(text) == IF Len(text) > embed_max_chars THEN SliceTo(text, embed_max_chars) ELSE text

\* one more pass of the loop than range(max_retries) has
RetryAfterFailure_more(attempt) == attempt < max_retries

\* lines 46-51, after a failed attempt: retry after a wait, or re-raise
RetryAfterFailure(attempt) == attempt < max_retries - 1

RECURSIVE Pow2(_)
Pow2(n) == IF n <= 0 THEN 1 ELSE 2 * Pow2(n - 1)

\* a backoff of one second, whatever the attempt
backoff_wait_constant(attempt) == 1

\* wait = 2 ** attempt
backoff_wait(attempt) == Pow2(attempt)

\* lines 37-51, `for attempt in range(retries)` from `attempt` on.  answers[k] is
\* what the k-th embeddings.create call does: [ok |-> TRUE, embedding |-> v] when it
\* returns a response whose data[0].embedding is v, [ok |-> FALSE] when it raises.
\* The result is [raised, value, sent, waits]: whether generate raised, what it
\* returned, the `input` of every create call and the argument of every time.sleep.
RECURSIVE generate_from(_, _, _, _)

generate_from(input, retries, answers, attempt) ==
    IF attempt >= retries
    THEN \* range(retries) is exhausted: the function ends without a return statement
         [raised |-> FALSE, value |-> None, sent |-> <<>>, waits |-> <<>>]
    ELSE IF answers[attempt + 1].ok
    THEN [raised |-> FALSE, value |-> PyList(answers[attempt + 1].embedding),
          sent |-> <<input>>, waits |-> <<>>]
    ELSE IF attempt < retries - 1
    THEN LET rest == generate_from(input, retries, answers, attempt + 1)
         IN  [rest EXCEPT !.sent = <<input>> \o @,
                          !.waits = <<backoff_wait(attempt)>> \o @]
    ELSE [raised |-> TRUE, value |-> None, sent |-> <<input>>, waits |-> <<>>]

\* EmbeddingsClient.generate(text, max_retries=retries)
generate(text, retries, answers) == generate_from(embed_input(text), retries, answers, 0)

-----------------------------------------------------------------------------
(* typesense_client.py, and the Typesense server behind it *)

per_page == 250
index_batch_size == 40

\* The server's import with action=upsert, one document: a document is identified by
\* its `id` field; a document sent without one is stored under a new id the server
\* generates, a document whose id is stored already replaces the stored one.
ServerUpsert(idx, doc) ==
    IF "id" \in DOMAIN doc /\ \E k \in 1..Len(idx) : idx[k].id = doc.id
    THEN [k \in 1..Len(idx) |-> IF idx[k].id = doc.id THEN doc ELSE idx[k]]
    ELSE IF "id" \in DOMAIN doc THEN Append(idx, doc)
    ELSE Append(idx, [id |-> IntToStr(Len(idx))] @@ doc)

\* The collection's schema (SCHEMA): the server rejects a document whose required
\* fields do not have the declared types.
SchemaValid(doc) ==
    /\ IsStrList(doc.people) /\ IsStrList(doc.locations) /\ IsStrList(doc.dates)
    /\ doc.summary.t = "str"

\* documents.import_(batch, {'action': 'upsert'}) on the server: the per-document
\* results; `rejected` are the positions the server refuses for reasons of its own
ImportResults(batch, rejected) ==
    [k \in 1..Len(batch) |-> [success |-> SchemaValid(batch[k]) /\ k \notin rejected]]

\* the collection after the server handled the documents lo..hi of `batch`, in order
RECURSIVE ImportApply(_, _, _, _, _)
ImportApply(idx, batch, results, lo, hi) ==
    IF lo > hi THEN idx
    ELSE IF lo = hi
    THEN (IF results[lo].success THEN ServerUpsert(idx, batch[lo]) ELSE idx)
    ELSE LET mid == (lo + hi) \div 2
             left == ImportApply(idx, batch, results, lo, mid)
         IN  \* the test makes TLC compute `left` before it goes on to the right half
             IF Len(left) >= 0 THEN ImportApply(left, batch, results, mid + 1, hi) ELSE left

\* for result in results: if result.get('success', False): success_count += 1
CountSuccess(results) == Cardinality({k \in 1..Len(results) : results[k].success})

\* range(0, len(documents), batch_size): the number of sub-batches
NumSubBatches(documents) == (Len(documents) + index_batch_size - 1) \div index_batch_size

\* sub-batches that take one document of the next sub-batch with them
SubBatch_overlap(documents, k) ==
    Slice(documents, (k - 1) * index_batch_size, k * index_batch_size + 1)

\* documents[i:i + batch_size] for the k-th sub-batch (k from 1)
SubBatch(documents, k) ==
    Slice(documents, (k - 1) * index_batch_size, k * index_batch_size)

\* the file_path of the documents of `batch` the server stored
StoredPaths(batch, results) ==
    LET paths == [k \in 1..Len(batch) |->
                     IF results[k].success THEN batch[k].file_path ELSE <<>>]
    IN  SelectSeq(paths, LAMBDA path : path # <<>>)

\* an index_documents without the try: the first import_ call that raises ends it
RECURSIVE index_documents_from_aborts(_, _, _, _)
index_documents_from_aborts(st, documents, outs, k) ==
    IF k > NumSubBatches(documents) THEN st
    ELSE LET batch == SubBatch(documents, k)
             results == ImportResults(batch, IF outs[k].ok THEN outs[k].rejected ELSE {})
             written == outs[k].ok \/ outs[k].applied
             next == [index |-> IF written
                                THEN ImportApply(st.index, batch, results, 1, Len(batch))
                                ELSE st.index,
                      success_count |-> st.success_count
                                          + (IF outs[k].ok THEN CountSuccess(results) ELSE 0),
                      calls |-> Append(st.calls, Len(batch)),
                      sent |-> st.sent \o [j \in 1..Len(batch) |-> batch[j].file_path],
                      stored |-> st.stored
                                   \o (IF written THEN StoredPaths(batch, results) ELSE <<>>)]
         IN  IF outs[k].ok THEN index_documents_from_aborts(next, documents, outs, k + 1)
             ELSE next

\* TypeSenseClient.index_documents from sub-batch k on.  outs[k] is what happens
\* to the k-th import_ call: [ok |-> TRUE, rejected |-> positions] when the server
\* answers, [ok |-> FALSE, applied |-> b] when the call raises (b: the server had
\* applied the write before the connection failed).
\* st = [index, success_count, calls, sent, stored]: the collection, the method's
\* success_count, the sizes of the import_ calls made, the file_path of every
\* document sent, in order, and the file_path of every document the server stored.
RECURSIVE index_documents_from(_, _, _, _)
index_documents_from(st, documents, outs, k) ==
    IF k > NumSubBatches(documents) THEN st
    ELSE LET batch == SubBatch(documents, k)
             results == ImportResults(batch, IF outs[k].ok THEN outs[k].rejected ELSE {})
             written == outs[k].ok \/ outs[k].applied
         IN  index_documents_from(
                 [index |-> IF written THEN ImportApply(st.index, batch, results, 1, Len(batch))
                            ELSE st.index,
                  success_count |-> st.success_count
                                      + (IF outs[k].ok THEN CountSuccess(results) ELSE 0),
                  calls |-> Append(st.calls, Len(batch)),
                  sent |-> st.sent \o [j \in 1..Len(batch) |-> batch[j].file_path],
                  stored |-> st.stored
                               \o (IF written THEN StoredPaths(batch, results) ELSE <<>>)],
                 documents, outs, k + 1)

\* TypeSenseClient.index_documents(documents)
index_documents(idx, documents, outs) ==
    index_documents_from([index |-> idx, success_count |-> 0, calls |-> <<>>,
                          sent |-> <<>>, stored |-> <<>>], documents, outs, 1)

\* documents.search({'q': '*', 'per_page': per_page, 'page': page}): the hits
SearchPage(idx, page) == Slice(idx, (page - 1) * per_page, page * per_page)

\* a get_existing_file_paths that reads the first page only
existing_from_one_page(idx, page, existing) ==
    LET hits == SearchPage(idx, page)
    IN  [existing |-> existing \cup {hits[k].file_path : k \in 1..Len(hits)},
         pages |-> page, requests |-> <<page>>]

\* a loop that stops at an empty page alone
RECURSIVE existing_from_until_empty(_, _, _)

existing_from_until_empty(idx, page, existing) ==
    LET hits == SearchPage(idx, page)
        found == existing \cup {hits[k].file_path : k \in 1..Len(hits)}
        rest == existing_from_until_empty(idx, page + 1, found)
    IN  IF hits = <<>> THEN [existing |-> existing, pages |-> page, requests |-> <<page>>]
        ELSE [rest EXCEPT !.requests = <<page>> \o @]

\* TypeSenseClient.get_existing_file_paths from page `page` on, `existing` collected
\* so far: [existing, pages, requests] with pages the number of search requests
\* made and requests the `page` parameter of each, in order
RECURSIVE existing_from(_, _, _)
existing_from(idx, page, existing) ==
    LET hits == SearchPage(idx, page)
        found == existing \cup {hits[k].file_path : k \in 1..Len(hits)}
        rest == existing_from(idx, page + 1, found)
    IN  IF hits = <<>> THEN [existing |-> existing, pages |-> page, requests |-> <<page>>]
        ELSE IF Len(hits) < per_page
        THEN [existing |-> found, pages |-> page, requests |-> <<page>>]
        ELSE [rest EXCEPT !.requests = <<page>> \o @]

\* a get_existing_file_paths that finds nothing
get_existing_file_paths_none(exists, idx) ==
    [existing |-> {}, pages |-> 1, requests |-> <<1>>]

\* TypeSenseClient.get_existing_file_paths; the search on a collection that does not
\* exist raises ObjectNotFound, which is caught
get_existing_file_paths(exists, idx) ==
    IF exists THEN existing_from(idx, 1, {})
    ELSE [existing |-> {}, pages |-> 1, requests |-> <<1>>]

\* TypeSenseClient.count_documents
count_documents(exists, idx) == IF exists THEN Len(idx) ELSE 0

\* an update_document that lets the backend's exception through
update_document_raises(idx, doc_id, updates, ok) ==
    IF ok /\ \E k \in 1..Len(idx) : idx[k].id = doc_id
    THEN [raised |-> FALSE, value |-> TRUE,
          index |-> [k \in 1..Len(idx) |-> IF idx[k].id = doc_id THEN updates @@ idx[k]
                                           ELSE idx[k]]]
    ELSE [raised |-> TRUE, value |-> FALSE, index |-> idx]

\* TypeSenseClient.update_document(doc_id, updates).  `ok` is whether the server
\* takes the partial update; documents[doc_id].update raises when it does not, and
\* when no document has the id (ObjectNotFound).  The result is [raised, value,
\* index]: whether update_document raised, what it returned, and the collection
\* after the call
update_document(idx, doc_id, updates, ok) ==
    IF ok /\ \E k \in 1..Len(idx) : idx[k].id = doc_id
    THEN [raised |-> FALSE, value |-> TRUE,
          index |-> [k \in 1..Len(idx) |-> IF idx[k].id = doc_id THEN updates @@ idx[k]
                                           ELSE idx[k]]]
    ELSE [raised |-> FALSE, value |-> FALSE, index |-> idx]

-----------------------------------------------------------------------------
(* capture_folders.py *)

\* FolderPathCapture.update_typesense_documents, lines 150-165: the loop from the
\* k-th of `documents` on.  oks[k] is whether the server takes the update of the
\* k-th document.  st is [index, updated, not_found, calls, raised]: the
\* collection, the two counters, the ids passed to update_document so far, and
\* whether an exception ended the loop
RECURSIVE update_documents_from(_, _, _, _, _)

update_documents_from(st, documents, file_to_path, oks, k) ==
    IF k > Len(documents) THEN st
    ELSE LET doc == documents[k]
             r == update_document(st.index, doc.id,
                                  [folder_path |-> file_to_path[doc.drive_file_id]], oks[k])
             after == [st EXCEPT !.index = r.index,
                                 !.calls = Append(@, doc.id),
                                 !.updated = IF r.value THEN @ + 1 ELSE @]
         IN  IF doc.drive_file_id = <<>> \/ doc.id = <<>>
             THEN update_documents_from(st, documents, file_to_path, oks, k + 1)
             ELSE IF doc.drive_file_id \notin DOMAIN file_to_path
             THEN update_documents_from([st EXCEPT !.not_found = @ + 1], documents,
                                        file_to_path, oks, k + 1)
             ELSE IF r.raised
             THEN [st EXCEPT !.calls = Append(@, doc.id), !.raised = TRUE]
             ELSE update_documents_from(after, documents, file_to_path, oks, k + 1)

\* FolderPathCapture.update_typesense_documents(file_to_path), lines 138-169, on the
\* collection idx: get_all_documents returns its documents
update_typesense_documents(idx, file_to_path, oks) ==
    update_documents_from([index |-> idx, updated |-> 0, not_found |-> 0, calls |-> <<>>,
                           raised |-> FALSE],
                          idx, file_to_path, oks, 1)

-----------------------------------------------------------------------------
(* ingest.py: constants and process_file *)

EXCLUDED_FILE_NAMES == {
    <<"M","G"," ","u","n","p","u","b","l","i","s","h","e","d"," ","m","a","n","u","s","c","r","i","p","t"," ","-"," ","N","e","w"," ","C","o","l","d"," ","W","a","r",".","d","o","c","x">>,
    <<"S","a","d","a","n","a","n","d",","," ","M","i","d","h","u","n"," ","-"," ","M","G"," ","u","n","p","u","b","l","i","s","h","e","d"," ","m","a","n","u","s","c","r","i","p","t"," ","r","e","v","i","e","w">>,
    <<"M","G"," ","w","r","i","t","i","n","g","s"," ","&"," ","e","a","r","l","y"," ","r","e","s","e","a","r","c","h"," ","g","u","i","d","a","n","c","e",".","d","o","c","x">>,
    <<"I","k","e",","," ","T","r","u","m","a","n"," ","L","i","b","r","a","r","y"," ","R","e","s","e","a","r","c","h"," ","Q","u","e","s","t","i","o","n","s">>,
    <<"D","i","s","s","e","r","t","a","t","i","o","n","_","C","o","m","p","i","l","e","d","_","1","2",".","1","7",".","1","5",".","d","o","c","x">> }

FOLDER_LABEL == <<"M","G"," ","A","s","s","o","r","t","e","d"," ","D","o","c","u","m","e","n","t","s">>
SECONDARY_FOLDERS == { <<"M","G"," ","A","s","s","o","r","t","e","d"," ","D","o","c","u","m","e","n","t","s">> }

NO_TEXT_PLACEHOLDER == <<"(","N","o"," ","t","e","x","t"," ","c","o","u","l","d"," ","b","e"," ","e","x","t","r","a","c","t","e","d",")">>

\* f"gdrive://{file.id}/{file.name}"
file_path_of(file) == <<"g","d","r","i","v","e",":","/","/">> \o file.id \o <<"/">> \o file.name

\* the extracted text as it is, without the placeholder
ocr_text_or_placeholder_raw(text) == text

\* lines 73-75: the text handed to the entity extractor
ocr_text_or_placeholder(text) == IF Strip(text) = <<>> THEN NO_TEXT_PLACEHOLDER ELSE text

\* line 97 raises TypeError when a joined entity field is no string or list of strings
text_for_search_raises(entities) ==
    JoinRaises(entities.people) \/ JoinRaises(entities.locations) \/ JoinRaises(entities.dates)

\* a text_for_search without the file name
text_for_search_of_no_name(file, entities, ocr_text) ==
    Format(entities.summary)
        \o <<" ">> \o JoinValue(<<" ">>, entities.people)
        \o <<" ">> \o JoinValue(<<" ">>, entities.locations)
        \o <<" ">> \o JoinValue(<<" ">>, entities.dates)
        \o <<" ">> \o SliceTo(ocr_text, ocr_preview_chars)

\* line 97
text_for_search_of(file, entities, ocr_text) ==
    file.name \o <<" ">> \o Format(entities.summary)
        \o <<" ">> \o JoinValue(<<" ">>, entities.people)
        \o <<" ">> \o JoinValue(<<" ">>, entities.locations)
        \o <<" ">> \o JoinValue(<<" ">>, entities.dates)
        \o <<" ">> \o SliceTo(ocr_text, ocr_preview_chars)

\* lines 100-118: the document dict
document_of(file, entities, ocr_text, embedding, now) ==
    [file_path |-> file_path_of(file),
     file_name |-> file.name,
     drive_file_id |-> file.id,
     web_view_link |-> IF Truthy(file.web_view_link) THEN file.web_view_link.v ELSE <<>>,
     folder_path |-> FOLDER_LABEL,
     source_type |-> IF FOLDER_LABEL \in SECONDARY_FOLDERS THEN "secondary" ELSE "primary",
     people |-> entities.people,
     locations |-> entities.locations,
     dates |-> entities.dates,
     publication_date |-> entities.publication_date,
     summary |-> entities.summary,
     ocr_content |-> ocr_text,
     text_for_search |-> text_for_search_of(file, entities, ocr_text),
     embedding |-> embedding,
     created_at |-> now,
     updated_at |-> now]

\* lines 138-139: the columns of the export
CSV_HEADER == <<
    <<"f","i","l","e","_","p","a","t","h">>,
    <<"f","i","l","e","_","n","a","m","e">>,
    <<"d","r","i","v","e","_","f","i","l","e","_","i","d">>,
    <<"w","e","b","_","v","i","e","w","_","l","i","n","k">>,
    <<"p","e","o","p","l","e">>,
    <<"l","o","c","a","t","i","o","n","s">>,
    <<"d","a","t","e","s">>,
    <<"s","u","m","m","a","r","y">>,
    <<"o","c","r","_","c","o","n","t","e","n","t">> >>

\* the characters that make csv.writer quote a field (excel dialect, QUOTE_MINIMAL):
\* the delimiter, the quote character and the characters of the line terminator
CSV_SPECIAL == {",", "\"", "\r", "\n"}

CSV_LINE_END == <<"\r", "\n">>

RECURSIVE DoubleQuotes(_)
\* every quote character written twice
DoubleQuotes(s) ==
    IF s = <<>> THEN <<>>
    ELSE (IF Head(s) = "\"" THEN <<"\"", "\"">> ELSE <<Head(s)>>) \o DoubleQuotes(Tail(s))

\* a writer that quotes nothing
csv_field_raw(s) == s

\* one field as csv.writer writes it
csv_field(s) ==
    IF \E k \in 1..Len(s) : s[k] \in CSV_SPECIAL
    THEN <<"\"">> \o DoubleQuotes(s) \o <<"\"">>
    ELSE s

\* writer.writerow: the fields, comma-separated, and the line terminator
csv_line(fields) ==
    Join(<<",">>, [k \in 1..Len(fields) |-> csv_field(fields[k])]) \o CSV_LINE_END

\* lines 148-150, and csv.writer's text for the value: a list becomes its items joined
\* with "; ", None is written as the empty string, anything else as str(value)
csv_value(v) ==
    IF v.t = "list" THEN JoinValue(<<";", " ">>, v)
    ELSE IF v.t = "null" THEN <<>>
    ELSE Format(v)

\* lines 146-150: the row of one document, in the order of CSV_FIELDS
export_row(doc) ==
    <<doc.file_path, doc.file_name, doc.drive_file_id, doc.web_view_link,
      csv_value(doc.people), csv_value(doc.locations), csv_value(doc.dates),
      csv_value(doc.summary), doc.ocr_content>>

RECURSIVE csv_lines(_, _)
\* lines 145-151: the lines of the documents from the k-th on
csv_lines(documents, k) ==
    IF k > Len(documents) THEN <<>>
    ELSE csv_line(export_row(documents[k])) \o csv_lines(documents, k + 1)

\* export_to_csv(documents, output_path): whether the file was written, and its text
export_to_csv(documents) ==
    IF documents = <<>> THEN [written |-> FALSE, text |-> <<>>]
    ELSE [written |-> TRUE, text |-> csv_line(CSV_HEADER) \o csv_lines(documents, 1)]

-----------------------------------------------------------------------------
(* bounds of the model *)

NumFiles == 2      \* listed files that are not excluded by name
MaxRuns == 2       \* pipeline processes started in a behaviour
MaxBatch == 2      \* --batch-size ranges over 1..MaxBatch
MaxLimit == 1      \* --limit ranges over 0..MaxLimit, or is absent

-----------------------------------------------------------------------------
(* the environment's inputs *)

Num(n) == [t |-> "num", v |-> n]

\* a DriveFile of the listing; list_files is asked for SUPPORTED_MIME_TYPES only
MakeFile(k) ==
    [id |-> <<"f">> \o IntToStr(k),
     name |-> <<"d">> \o IntToStr(k),
     mime_type |-> CASE k % 3 = 1 -> PDF_MIME_TYPE
                     [] k % 3 = 2 -> PNG_MIME_TYPE
                     [] OTHER -> DOCX_MIME_TYPE,
     web_view_link |-> None]

ExcludedFile ==
    [id |-> <<"x">>,
     name |-> <<"I","k","e",","," ","T","r","u","m","a","n"," ","L","i","b","r","a","r","y"," ","R","e","s","e","a","r","c","h"," ","Q","u","e","s","t","i","o","n","s">>,
     mime_type |-> PDF_MIME_TYPE,
     web_view_link |-> None]

\* the listing: one file excluded by name, then NumFiles others
SmallCorpus == <<ExcludedFile>> \o [k \in 1..NumFiles |-> MakeFile(k)]

\* File bytes, as what each library makes of them.
GoodContent ==
    [docx_ok |-> TRUE, paragraphs |-> << <<"p">> >>, rows |-> <<>>,
     pdf_ok |-> TRUE, pages |-> << <<"t">> >>,
     raster_ok |-> TRUE, scans |-> << [ocr_ok |-> TRUE, text |-> <<"s">>] >>,
     image_ok |-> TRUE, image |-> [ocr_ok |-> TRUE, text |-> <<"i">>]]

\* nothing legible: blank paragraphs and pages, the OCR backend finds nothing or fails
BlankContent ==
    [docx_ok |-> TRUE, paragraphs |-> << <<" ">> >>, rows |-> <<>>,
     pdf_ok |-> TRUE, pages |-> << <<>> >>,
     raster_ok |-> TRUE, scans |-> << [ocr_ok |-> FALSE, text |-> <<>>] >>,
     image_ok |-> TRUE, image |-> [ocr_ok |-> TRUE, text |-> <<"\n">>]]

\* corrupt bytes: no library can read them
CorruptContent ==
    [docx_ok |-> FALSE, paragraphs |-> <<>>, rows |-> <<>>,
     pdf_ok |-> FALSE, pages |-> <<>>,
     raster_ok |-> FALSE, scans |-> <<>>,
     image_ok |-> FALSE, image |-> [ocr_ok |-> FALSE, text |-> <<>>]]

PipelineContents == {GoodContent, BlankContent, CorruptContent}

GoodReply ==
    [kind |-> "json",
     value |-> PyObj([people |-> PyList(<< PyStr(<<"A">>) >>), locations |-> EmptyList,
                      dates |-> EmptyList, summary |-> PyStr(<<"S">>),
                      publication_date |-> PyStr(<<"1">>)])]

NullPeopleReply ==
    [kind |-> "json",
     value |-> PyObj([people |-> None, locations |-> EmptyList,
                      dates |-> EmptyList, summary |-> PyStr(<<"S">>)])]

CallErrorReply == [kind |-> "call_error"]

PipelineReplies == {GoodReply, NullPeopleReply, CallErrorReply}

\* response.data[0].embedding, in tenths: [0.1, 0.2, 0.3]; the three numbers stand
\* for the 1536 of the backend
BackendVector == <<1, 2, 3>>

OkOutcome == [ok |-> TRUE, applied |-> TRUE, rejected |-> {}]

\* what can happen to one import_ call of n documents
SubOutcomes(n) ==
    {[ok |-> TRUE, applied |-> TRUE, rejected |-> R] : R \in SUBSET (1..n)}
        \cup {[ok |-> FALSE, applied |-> b, rejected |-> {}] : b \in BOOLEAN}

\* what can happen to the import_ calls of one index_documents(documents)
FlushOutcomes(documents) ==
    [1..NumSubBatches(documents) -> SubOutcomes(Min(Len(documents), index_batch_size))]

AllOk(documents) == [k \in 1..NumSubBatches(documents) |-> OkOutcome]

Limits == {None} \cup {Num(n) : n \in 0..MaxLimit}

ArgChoices ==
    [reprocess : BOOLEAN, dry_run : BOOLEAN, limit : Limits, batch_size : 1..MaxBatch,
     export_csv : {None}]

-----------------------------------------------------------------------------
(* ingest.py: main *)

NoFile == [content |-> <<>>, ocr_text |-> <<>>, entities |-> <<>>,
           text_for_embedding |-> <<>>, embedding |-> None, attempt |-> 0]

NoHist ==
    [after_kill |-> FALSE,    \* the previous process was killed before it finished
     startup_failed |-> FALSE, \* a client could not be set up (lines 174-190 raised)
     after_full_run |-> FALSE, \* the previous process printed its summary, and ran
                              \* without --reprocess, --dry-run and --limit
     index_at_start |-> {},   \* the file_path values stored when the process started
     left_over |-> {},        \* the candidates of the process before whose document
                              \* was not stored when this process started
     docs_at_start |-> 0,     \* the number of documents stored when the process started
     lookups |-> 0,           \* calls of get_existing_file_paths
     downloads |-> <<>>,      \* the file ids passed to download_file, in order
     stages |-> <<>>,         \* the stages entered for the current file
     embed_calls |-> 0,       \* embeddings.create calls for the current file
     waits |-> <<>>,          \* time.sleep arguments for the current file
     outcomes |-> <<>>,       \* how each finished file ended
     batched |-> <<>>,        \* the file_path of every document appended to the batch
     flushes |-> <<>>,        \* the size of every index_documents call
     submitted |-> <<>>,      \* the file_path of every document passed to it, in order
     bulk_calls |-> <<>>,     \* the size of every import_ call
     stored |-> <<>>,         \* the file_path of every document the server stored
     index_fault |-> FALSE]   \* an import_ call raised or refused a document

\* a file that was not written
NoFileWritten == [written |-> FALSE, text |-> <<>>]

NoReport == [printed |-> FALSE, success_count |-> 0, failed |-> 0, total |-> 0,
             csv |-> NoFileWritten]

NoArgs == [reprocess |-> FALSE, dry_run |-> FALSE, limit |-> None, batch_size |-> 10,
           export_csv |-> None]

Running == pc \notin {"idle", "done", "crashed", "killed"}

CurFile == files_to_process[fi]

\* the head of `for file in files_to_process`, for position k
LoopPc(files, k) == IF k > Len(files) THEN "final_flush" ELSE "download"

\* a key made of the file id alone
listing_path_of_id_only(f) == <<"g","d","r","i","v","e",":","/","/">> \o f.id

\* line 224: file_path = f"gdrive://{f.id}/{f.name}", the key looked up in existing_paths
listing_path_of(f) == <<"g","d","r","i","v","e",":","/","/">> \o f.id \o <<"/">> \o f.name

\* the filter without the test on the file's name
IsCandidate_no_exclusion(f, existing) == listing_path_of(f) \notin existing

\* a filter that takes files only as long as no document is stored
IsCandidate_while_empty(f, existing) == f.name \notin EXCLUDED_FILE_NAMES /\ existing = {}

\* the filter without the test on existing_paths
IsCandidate_any(f, existing) == f.name \notin EXCLUDED_FILE_NAMES

\* lines 221-226: whether f is appended to files_to_process
IsCandidate(f, existing) ==
    IF f.name \in EXCLUDED_FILE_NAMES THEN FALSE ELSE listing_path_of(f) \notin existing

filter_files(all_files, existing) ==
    SelectSeq(all_files, LAMBDA f : IsCandidate(f, existing))

\* lines 228-229
apply_limit(files, limit) == IF Truthy(limit) THEN SliceTo(files, limit.v) ELSE files

\* the test with > in the place of >=
BatchIsFull_gt(documents, batch_size) == Len(documents) > batch_size

\* line 265: len(processed_documents) >= args.batch_size
BatchIsFull(documents, batch_size) == Len(documents) >= batch_size

\* line 285
success_count_of(files, failed) == Len(files) - failed

\* `python ingest.py ...`: a new process, when no other is running
StartRun(a) ==
    /\ ~Running
    /\ runs < MaxRuns
    /\ runs' = runs + 1
    /\ clock' = clock + 1
    /\ args' = a
    /\ pc' = "init_clients"
    /\ existing_paths' = {}
    /\ files_to_process' = <<>>
    /\ processed_documents' = <<>>
    /\ failed_count' = 0
    /\ fi' = 0
    /\ cur' = NoFile
    /\ report' = NoReport
    /\ hist' = [NoHist EXCEPT !.after_kill = (pc = "killed"),
                              !.after_full_run = /\ report.printed
                                                 /\ ~args.reprocess
                                                 /\ ~args.dry_run
                                                 /\ ~Truthy(args.limit),
                              !.index_at_start = {index[k].file_path : k \in 1..Len(index)},
                              !.docs_at_start = Len(index)]
    /\ UNCHANGED <<corpus, collection_exists, index, fin, fout>>

\* a start-up that goes on after a client could not be set up
InitClients_goes_on(ok) ==
    /\ pc = "init_clients"
    /\ pc' = "create_collection"
    /\ hist' = [hist EXCEPT !.startup_failed = ~ok]
    /\ UNCHANGED <<corpus, collection_exists, index, clock, runs, args, existing_paths,
                   files_to_process, processed_documents, failed_count, fi, cur, report,
                   fin, fout>>

\* lines 174-190: authenticate, the OCR engine, TypeSenseClient(); a missing
\* credential file (FileNotFoundError in authenticate) or a missing required
\* configuration value (Settings() in TypeSenseClient.__init__) raises, which ends
\* the process
InitClients(ok) ==
    /\ pc = "init_clients"
    /\ pc' = IF ok THEN "create_collection" ELSE "crashed"
    /\ hist' = [hist EXCEPT !.startup_failed = ~ok]
    /\ UNCHANGED <<corpus, collection_exists, index, clock, runs, args, existing_paths,
                   files_to_process, processed_documents, failed_count, fi, cur, report,
                   fin, fout>>

\* a create_collection that drops what is there and creates the collection anew
CreateCollection_recreates ==
    /\ pc = "create_collection"
    /\ collection_exists' = TRUE
    /\ index' = <<>>
    /\ pc' = "get_existing"
    /\ UNCHANGED <<corpus, clock, runs, args, existing_paths, files_to_process,
                   processed_documents, failed_count, fi, cur, report, hist, fin, fout>>

\* line 191, TypeSenseClient.create_collection
CreateCollection ==
    /\ pc = "create_collection"
    /\ collection_exists' = TRUE
    /\ index' = IF collection_exists THEN index ELSE <<>>
    /\ pc' = "get_existing"
    /\ UNCHANGED <<corpus, clock, runs, args, existing_paths, files_to_process,
                   processed_documents, failed_count, fi, cur, report, hist, fin, fout>>

\* lines 194-197
GetExisting ==
    /\ pc = "get_existing"
    /\ existing_paths' = IF ~args.reprocess
                         THEN get_existing_file_paths(collection_exists, index).existing
                         ELSE {}
    /\ hist' = [hist EXCEPT !.lookups = IF ~args.reprocess THEN @ + 1 ELSE @]
    /\ pc' = "list_files"
    /\ UNCHANGED <<corpus, collection_exists, index, clock, runs, args, files_to_process,
                   processed_documents, failed_count, fi, cur, report, fin, fout>>

\* the listing and the filters without the dry run's return
ListAndFilter_no_dry_run(ok) ==
    /\ pc = "list_files"
    /\ LET files == apply_limit(filter_files(corpus, existing_paths), args.limit)
       IN  /\ files_to_process' = IF ok THEN files ELSE <<>>
           /\ fi' = IF ok THEN 1 ELSE fi
           /\ pc' = IF ~ok THEN "crashed" ELSE LoopPc(files, 1)
    /\ UNCHANGED <<corpus, collection_exists, index, clock, runs, args, existing_paths,
                   processed_documents, failed_count, cur, report, hist, fin, fout>>

\* lines 199-240: the extractor clients, the listing, the filters, the cap, and the
\* dry run's return.  `ok` is whether list_files answers; when it raises the
\* process ends.
ListAndFilter(ok) ==
    /\ pc = "list_files"
    /\ LET files == apply_limit(filter_files(corpus, existing_paths), args.limit)
       IN  /\ files_to_process' = IF ok THEN files ELSE <<>>
           /\ fi' = IF ok /\ ~args.dry_run THEN 1 ELSE fi
           /\ pc' = IF ~ok THEN "crashed"
                    ELSE IF args.dry_run THEN "done"
                    ELSE LoopPc(files, 1)
    /\ UNCHANGED <<corpus, collection_exists, index, clock, runs, args, existing_paths,
                   processed_documents, failed_count, cur, report, hist, fin, fout>>

\* a loop that ends at the first file that fails
FailFile_stops(h, how) ==
    /\ failed_count' = failed_count + 1
    /\ fi' = fi + 1
    /\ pc' = "final_flush"
    /\ cur' = NoFile
    /\ hist' = [h EXCEPT !.outcomes = Append(@, how)]
    /\ UNCHANGED processed_documents

\* a loop that tries a failed file again
FailFile_retries(h, how) ==
    /\ failed_count' = failed_count + 1
    /\ fi' = fi
    /\ pc' = "download"
    /\ cur' = NoFile
    /\ hist' = [h EXCEPT !.outcomes = Append(@, how)]
    /\ UNCHANGED processed_documents

\* process_file returned None (lines 127-129), so main takes lines 268-271 and
\* goes on with the next file; h is the history so far
FailFile(h, how) ==
    /\ failed_count' = failed_count + 1
    /\ fi' = fi + 1
    /\ pc' = LoopPc(files_to_process, fi + 1)
    /\ cur' = NoFile
    /\ hist' = [h EXCEPT !.outcomes = Append(@, how)]
    /\ UNCHANGED processed_documents

\* a process_file that goes from the download to the entities, without the text
Download_skips_extraction(ok, content) ==
    /\ pc = "download"
    /\ LET h == [hist EXCEPT !.downloads = Append(@, CurFile.id),
                             !.stages = <<"download">>,
                             !.embed_calls = 0,
                             !.waits = <<>>]
       IN  IF ok
           THEN /\ cur' = [NoFile EXCEPT !.content = content]
                /\ pc' = "entities"
                /\ hist' = h
                /\ UNCHANGED <<failed_count, fi, processed_documents>>
           ELSE FailFile(h, "failed")
    /\ UNCHANGED <<corpus, collection_exists, index, clock, runs, args, existing_paths,
                   files_to_process, report, fin, fout>>

\* line 66: `ok` is whether download_file returns, `content` what it returns
Download(ok, content) ==
    /\ pc = "download"
    /\ LET h == [hist EXCEPT !.downloads = Append(@, CurFile.id),
                             !.stages = <<"download">>,
                             !.embed_calls = 0,
                             !.waits = <<>>]
       IN  IF ok
           THEN /\ cur' = [NoFile EXCEPT !.content = content]
                /\ pc' = "extract_text"
                /\ hist' = h
                /\ UNCHANGED <<failed_count, fi, processed_documents>>
           ELSE FailFile(h, "failed")
    /\ UNCHANGED <<corpus, collection_exists, index, clock, runs, args, existing_paths,
                   files_to_process, report, fin, fout>>

\* lines 71-75
ExtractText ==
    /\ pc = "extract_text"
    /\ LET r == process_document(cur.content, CurFile.mime_type)
           h == [hist EXCEPT !.stages = Append(@, "extract_text")]
       IN  IF r.raised
           THEN FailFile(h, "failed")
           ELSE /\ cur' = [cur EXCEPT !.ocr_text = ocr_text_or_placeholder(r.text),
                                      !.content = <<>>]
                /\ pc' = "entities"
                /\ hist' = h
                /\ UNCHANGED <<failed_count, fi, processed_documents>>
    /\ UNCHANGED <<corpus, collection_exists, index, clock, runs, args, existing_paths,
                   files_to_process, report, fin, fout>>

\* lines 80-89: the entity extractor, then build_text_for_embedding
ExtractEntities(reply) ==
    /\ pc = "entities"
    /\ LET entities == EntityExtractor_extract(reply)
           b == build_text_for_embedding(cur.ocr_text, entities.summary, entities.people,
                                         entities.locations, entities.dates)
           h == [hist EXCEPT !.stages = Append(@, "entities")]
       IN  IF b.raised
           THEN FailFile(h, "failed")
           ELSE /\ cur' = [cur EXCEPT !.entities = entities,
                                      !.text_for_embedding = b.text,
                                      !.attempt = 0]
                /\ pc' = "embedding"
                /\ hist' = h
                /\ UNCHANGED <<failed_count, fi, processed_documents>>
    /\ UNCHANGED <<corpus, collection_exists, index, clock, runs, args, existing_paths,
                   files_to_process, report, fin, fout>>

\* line 94, EmbeddingsClient.generate: one pass of `for attempt in range(max_retries)`;
\* `ok` is whether embeddings.create answers
EmbedAttempt(ok) ==
    /\ pc = "embedding"
    /\ LET h0 == IF cur.attempt = 0 THEN [hist EXCEPT !.stages = Append(@, "embedding")]
                 ELSE hist
           h == [h0 EXCEPT !.embed_calls = @ + 1]
       IN  IF cur.attempt >= max_retries
           THEN \* the loop ends without a return statement: generate returns None
                /\ cur' = [cur EXCEPT !.embedding = None]
                /\ pc' = "assemble"
                /\ hist' = h0
                /\ UNCHANGED <<failed_count, fi, processed_documents>>
           ELSE IF ok
           THEN /\ cur' = [cur EXCEPT !.embedding = PyList(BackendVector)]
                /\ pc' = "assemble"
                /\ hist' = h
                /\ UNCHANGED <<failed_count, fi, processed_documents>>
           ELSE IF RetryAfterFailure(cur.attempt)
           THEN /\ cur' = [cur EXCEPT !.attempt = @ + 1]
                /\ pc' = "embedding"
                /\ hist' = [h EXCEPT !.waits = Append(@, backoff_wait(cur.attempt))]
                /\ UNCHANGED <<failed_count, fi, processed_documents>>
           ELSE FailFile(h, "failed_embedding")
    /\ UNCHANGED <<corpus, collection_exists, index, clock, runs, args, existing_paths,
                   files_to_process, report, fin, fout>>

\* a loop that goes on to the next file while the full batch is still to be written
Assemble_defers_flush ==
    /\ pc = "assemble"
    /\ LET h == [hist EXCEPT !.stages = Append(@, "assemble")]
           doc == document_of(CurFile, cur.entities, cur.ocr_text, cur.embedding, clock)
       IN  IF text_for_search_raises(cur.entities)
           THEN FailFile(h, "failed")
           ELSE /\ processed_documents' = Append(processed_documents, doc)
                /\ hist' = [h EXCEPT !.outcomes = Append(@, "batched"),
                                     !.batched = Append(@, doc.file_path)]
                /\ cur' = NoFile
                /\ UNCHANGED failed_count
                /\ pc' = LoopPc(files_to_process, fi + 1) /\ fi' = fi + 1
    /\ UNCHANGED <<corpus, collection_exists, index, clock, runs, args, existing_paths,
                   files_to_process, report, fin, fout>>

\* lines 96-125 of process_file, then lines 261-267 of main
Assemble ==
    /\ pc = "assemble"
    /\ LET h == [hist EXCEPT !.stages = Append(@, "assemble")]
           doc == document_of(CurFile, cur.entities, cur.ocr_text, cur.embedding, clock)
       IN  IF text_for_search_raises(cur.entities)
           THEN FailFile(h, "failed")
           ELSE /\ processed_documents' = Append(processed_documents, doc)
                /\ hist' = [h EXCEPT !.outcomes = Append(@, "batched"),
                                     !.batched = Append(@, doc.file_path)]
                /\ cur' = NoFile
                /\ UNCHANGED failed_count
                /\ IF BatchIsFull(Append(processed_documents, doc), args.batch_size)
                   THEN pc' = "flush" /\ fi' = fi
                   ELSE pc' = LoopPc(files_to_process, fi + 1) /\ fi' = fi + 1
    /\ UNCHANGED <<corpus, collection_exists, index, clock, runs, args, existing_paths,
                   files_to_process, report, fin, fout>>

\* the history after index_documents returned r
Indexed(h, documents, r) ==
    [h EXCEPT !.flushes = Append(@, Len(documents)),
              !.submitted = @ \o [k \in 1..Len(documents) |-> documents[k].file_path],
              !.bulk_calls = @ \o r.calls,
              !.stored = @ \o r.stored,
              !.index_fault = @ \/ r.success_count # Len(documents)]

\* a flush after which the existing keys are read again and the remaining
\* candidates filtered with them
Flush_refreshes(outs) ==
    /\ pc = "flush"
    /\ LET r == index_documents(index, processed_documents, outs)
           existing == get_existing_file_paths(collection_exists, r.index).existing
           done == SubSeq(files_to_process, 1, fi)
           rest == SubSeq(files_to_process, fi + 1, Len(files_to_process))
           files == done \o SelectSeq(rest, LAMBDA f : file_path_of(f) \notin existing)
       IN  /\ index' = r.index
           /\ hist' = [Indexed(hist, processed_documents, r) EXCEPT !.lookups = @ + 1]
           /\ existing_paths' = existing
           /\ files_to_process' = files
           /\ pc' = LoopPc(files, fi + 1)
    /\ processed_documents' = <<>>
    /\ fi' = fi + 1
    /\ UNCHANGED <<corpus, collection_exists, clock, runs, args, failed_count, cur, report,
                   fin, fout>>

\* a flush that keeps the written documents in the pending batch
Flush_keeps(outs) ==
    /\ pc = "flush"
    /\ LET r == index_documents(index, processed_documents, outs)
       IN  /\ index' = r.index
           /\ hist' = Indexed(hist, processed_documents, r)
    /\ fi' = fi + 1
    /\ pc' = LoopPc(files_to_process, fi + 1)
    /\ UNCHANGED <<corpus, collection_exists, clock, runs, args, existing_paths,
                   files_to_process, processed_documents, failed_count, cur, report, fin,
                   fout>>

\* lines 265-267: the batch is full
Flush(outs) ==
    /\ pc = "flush"
    /\ LET r == index_documents(index, processed_documents, outs)
       IN  /\ index' = r.index
           /\ hist' = Indexed(hist, processed_documents, r)
    /\ processed_documents' = <<>>
    /\ fi' = fi + 1
    /\ pc' = LoopPc(files_to_process, fi + 1)
    /\ UNCHANGED <<corpus, collection_exists, clock, runs, args, existing_paths,
                   files_to_process, failed_count, cur, report, fin, fout>>

\* an end of the loop that does not write the pending documents
FinalFlush_skips(outs) ==
    /\ pc = "final_flush"
    /\ pc' = "summary"
    /\ UNCHANGED <<corpus, collection_exists, index, clock, runs, args, existing_paths,
                   files_to_process, processed_documents, failed_count, fi, cur, report,
                   hist, fin, fout>>

\* lines 273-275: after the loop
FinalFlush(outs) ==
    /\ pc = "final_flush"
    /\ IF processed_documents # <<>>
       THEN LET r == index_documents(index, processed_documents, outs)
            IN  /\ index' = r.index
                /\ hist' = Indexed(hist, processed_documents, r)
       ELSE UNCHANGED <<index, hist>>
    /\ pc' = "summary"
    /\ UNCHANGED <<corpus, collection_exists, clock, runs, args, existing_paths,
                   files_to_process, processed_documents, failed_count, fi, cur, report,
                   fin, fout>>

\* lines 277-288: the export, then the SUMMARY block
Summary ==
    /\ pc = "summary"
    /\ report' = [printed |-> TRUE,
                  success_count |-> success_count_of(files_to_process, failed_count),
                  failed |-> failed_count,
                  total |-> count_documents(collection_exists, index),
                  csv |-> IF Truthy(args.export_csv) /\ processed_documents # <<>>
                          THEN export_to_csv(processed_documents)
                          ELSE NoFileWritten]
    /\ pc' = "done"
    /\ UNCHANGED <<corpus, collection_exists, index, clock, runs, args, existing_paths,
                   files_to_process, processed_documents, failed_count, fi, cur, hist,
                   fin, fout>>

\* the process is killed (Ctrl-C, a crash of the machine) wherever it is: what it
\* held in memory is gone, the collection stays as it is
Interrupt ==
    /\ Running
    /\ pc' = "killed"
    /\ args' = NoArgs
    /\ existing_paths' = {}
    /\ files_to_process' = <<>>
    /\ processed_documents' = <<>>
    /\ failed_count' = 0
    /\ fi' = 0
    /\ cur' = NoFile
    /\ report' = NoReport
    /\ hist' = NoHist
    /\ UNCHANGED <<corpus, collection_exists, index, clock, runs, fin, fout>>

-----------------------------------------------------------------------------
(* Spec: up to MaxRuns processes, one after the other, over SmallCorpus.  Every  *)
(* file downloads and reads well; the embedding backend and the index server    *)
(* fail at will, and a process can be killed anywhere.                          *)

PipelineIdle ==
    /\ collection_exists = FALSE
    /\ index = <<>>
    /\ clock = 0
    /\ runs = 0
    /\ pc = "idle"
    /\ args = NoArgs
    /\ existing_paths = {}
    /\ files_to_process = <<>>
    /\ processed_documents = <<>>
    /\ failed_count = 0
    /\ fi = 0
    /\ cur = NoFile
    /\ report = NoReport
    /\ hist = NoHist

NoCall == [component |-> "none"]

Init ==
    /\ corpus = SmallCorpus
    /\ PipelineIdle
    /\ fin = NoCall
    /\ fout = NoCall

Next ==
    \/ \E a \in ArgChoices : StartRun(a)
    \/ \E ok \in BOOLEAN : InitClients(ok)
    \/ CreateCollection
    \/ GetExisting
    \/ \E ok \in BOOLEAN : ListAndFilter(ok)
    \/ Download(TRUE, GoodContent)
    \/ ExtractText
    \/ ExtractEntities(GoodReply)
    \/ \E ok \in BOOLEAN : EmbedAttempt(ok)
    \/ Assemble
    \/ \E outs \in FlushOutcomes(processed_documents) : Flush(outs)
    \/ \E outs \in FlushOutcomes(processed_documents) : FinalFlush(outs)
    \/ Summary
    \/ Interrupt

Spec == Init /\ [][Next]_vars

-----------------------------------------------------------------------------
(* SpecRun: one process over SmallCorpus, started on a server without the        *)
(* collection; every backend fails at will, with every kind of content and of   *)
(* entity reply.                                                                 *)

StartFirstRun(a) == runs = 0 /\ StartRun(a)

NextRun ==
    \/ \E a \in ArgChoices : StartFirstRun(a)
    \/ \E ok \in BOOLEAN : InitClients(ok)
    \/ CreateCollection
    \/ GetExisting
    \/ \E ok \in BOOLEAN : ListAndFilter(ok)
    \/ \E ok \in BOOLEAN, content \in PipelineContents : Download(ok, content)
    \/ ExtractText
    \/ \E reply \in PipelineReplies : ExtractEntities(reply)
    \/ \E ok \in BOOLEAN : EmbedAttempt(ok)
    \/ Assemble
    \/ \E outs \in FlushOutcomes(processed_documents) : Flush(outs)
    \/ \E outs \in FlushOutcomes(processed_documents) : FinalFlush(outs)
    \/ Summary
    \/ Interrupt

SpecRun == Init /\ [][NextRun]_vars

-----------------------------------------------------------------------------
(* SpecBatch: one process over a large listing, no backend failing, with batch   *)
(* sizes on both sides of index_documents' own sub-batch size.                  *)

BigFiles == 82

BatchCorpusSizes == {0, 1, index_batch_size, index_batch_size + 1, BigFiles}
BatchSizes == {1, index_batch_size, index_batch_size + 1, BigFiles \div 2}

BatchArgChoices ==
    [reprocess : {FALSE}, dry_run : {FALSE}, limit : {None}, batch_size : BatchSizes,
     export_csv : {None}]

InitBatch ==
    /\ corpus \in {[k \in 1..n |-> MakeFile(k)] : n \in BatchCorpusSizes}
    /\ PipelineIdle
    /\ fin = NoCall
    /\ fout = NoCall

NextBatch ==
    \/ \E a \in BatchArgChoices : StartFirstRun(a)
    \/ InitClients(TRUE)
    \/ CreateCollection
    \/ GetExisting
    \/ ListAndFilter(TRUE)
    \/ Download(TRUE, GoodContent)
    \/ ExtractText
    \/ ExtractEntities(GoodReply)
    \/ EmbedAttempt(TRUE)
    \/ Assemble
    \/ Flush(AllOk(processed_documents))
    \/ FinalFlush(AllOk(processed_documents))
    \/ Summary

SpecBatch == InitBatch /\ [][NextBatch]_vars

-----------------------------------------------------------------------------
(* SpecEntity: EntityExtractor.extract on its own, over the answers of the chat  *)
(* backend.                                                                      *)

ListKeys == {"people", "locations", "dates"}
StrKeys == {"summary", "publication_date"}
OtherKeys == {"confidence"}

ListValues == {None, EmptyList, PyList(<< PyStr(<<"A">>) >>)}
StrValues == {None, EmptyStr, PyStr(<<"S">>)}
OtherValues == {Num(1)}

ValuesOf(key) ==
    IF key \in ListKeys THEN ListValues ELSE IF key \in StrKeys THEN StrValues ELSE OtherValues

\* the JSON objects over the keys above
JsonObjects ==
    UNION { {o \in [D -> ListValues \cup StrValues \cup OtherValues] :
                \A key \in D : o[key] \in ValuesOf(key)}
            : D \in SUBSET (ListKeys \cup StrKeys \cup OtherKeys) }

EntityReplies ==
    {[kind |-> "call_error"], [kind |-> "no_content"], [kind |-> "invalid_json"]}
        \cup {[kind |-> "json", value |-> v] :
                 v \in {None, EmptyList, PyStr(<<"x">>), Num(1)}}
        \cup {[kind |-> "json", value |-> PyObj(o)] : o \in JsonObjects}

InitEntity ==
    /\ corpus = <<>>
    /\ PipelineIdle
    /\ fin \in {[component |-> "extract", reply |-> r] : r \in EntityReplies}
    /\ fout = NoCall

\* entity_extractor.extract(text), the backend answering fin.reply
CallExtract ==
    /\ fin.component = "extract"
    /\ fout = NoCall
    /\ fout' = [component |-> "extract", result |-> EntityExtractor_extract(fin.reply)]
    /\ UNCHANGED <<corpus, collection_exists, index, clock, runs, pc, args, existing_paths,
                   files_to_process, processed_documents, failed_count, fi, cur, report,
                   hist, fin>>

NextEntity == CallExtract

SpecEntity == InitEntity /\ [][NextEntity]_vars

-----------------------------------------------------------------------------
(* SpecOcr: process_document on its own, over contents whose embedded text is    *)
(* around min_direct_chars long.                                                 *)

MaxPad == 2   \* white space after a page's text: 0..MaxPad characters

\* len("--- Page 1 ---\n")
PageHeaderLen == Len(PageBlock(1, <<>>))

\* lengths of the page text that put the direct text just below, at and just above
\* min_direct_chars, and the short ones
PageTextLengths ==
    {0, 1, min_direct_chars - PageHeaderLen - 1, min_direct_chars - PageHeaderLen,
     min_direct_chars - PageHeaderLen + 1}

PageText(n, pad) == [k \in 1..(n + pad) |-> IF k <= n THEN "a" ELSE " "]

GoodScan == [ocr_ok |-> TRUE, text |-> <<"s">>]
FailedScan == [ocr_ok |-> FALSE, text |-> <<>>]
BlankScan == [ocr_ok |-> TRUE, text |-> <<" ">>]

ScanChoices == {<<>>, <<GoodScan>>, <<FailedScan>>, <<GoodScan, BlankScan, GoodScan>>}

\* readable: python-docx and pdfplumber read the bytes; renderable: pdf2image and
\* PIL do
OcrContent(n, pad, readable, renderable, scans) ==
    [docx_ok |-> readable, paragraphs |-> << PageText(n, pad), <<" ">> >>,
     rows |-> << << <<" ">>, PageText(n, pad) >> >>,
     pdf_ok |-> readable, pages |-> << PageText(n, pad) >>,
     raster_ok |-> renderable, scans |-> scans,
     image_ok |-> renderable, image |-> IF scans = <<>> THEN BlankScan ELSE scans[1]]

OcrContents ==
    {OcrContent(n, pad, readable, renderable, scans) :
        n \in PageTextLengths, pad \in 0..MaxPad, readable \in BOOLEAN,
        renderable \in BOOLEAN, scans \in ScanChoices}

TEXT_MIME_TYPE == <<"t","e","x","t","/","p","l","a","i","n">>

MimeTypes == {PDF_MIME_TYPE, PNG_MIME_TYPE, DOCX_MIME_TYPE, TEXT_MIME_TYPE}

InitOcr ==
    /\ corpus = <<>>
    /\ PipelineIdle
    /\ fin \in {[component |-> "process_document", content |-> c, mime_type |-> m] :
                   c \in OcrContents, m \in MimeTypes}
    /\ fout = NoCall

\* process_document(content, mime_type, ocr_engine)
CallProcessDocument ==
    /\ fin.component = "process_document"
    /\ fout = NoCall
    /\ fout' = [component |-> "process_document",
                result |-> process_document(fin.content, fin.mime_type)]
    /\ UNCHANGED <<corpus, collection_exists, index, clock, runs, pc, args, existing_paths,
                   files_to_process, processed_documents, failed_count, fi, cur, report,
                   hist, fin>>

NextOcr == CallProcessDocument

SpecOcr == InitOcr /\ [][NextOcr]_vars

-----------------------------------------------------------------------------
(* SpecIndex: TypeSenseClient.index_documents on its own, over batches on both   *)
(* sides of the sub-batch size, every import_ call answering or failing.         *)

MaxSubBatches == 3   \* the batches make up to MaxSubBatches import_ calls

\* the document process_file builds for the k-th file
IndexDoc(k) ==
    document_of(MakeFile(k), EntityExtractor_extract(GoodReply), <<"t">>,
                PyList(BackendVector), 1)

\* batch sizes: empty, one document, and full sub-batches with and without one more
IndexBatchSizes ==
    {0, 1} \cup {n * index_batch_size : n \in 1..(MaxSubBatches - 1)}
           \cup {n * index_batch_size + 1 : n \in 1..(MaxSubBatches - 1)}

\* what happens to one import_ call: the server stores all, refuses the first or the
\* last document, or the call raises, before or after the server applied it
SubOutcomeChoices ==
    {OkOutcome,
     [ok |-> TRUE, applied |-> TRUE, rejected |-> {1}],
     [ok |-> TRUE, applied |-> TRUE, rejected |-> {index_batch_size}],
     [ok |-> FALSE, applied |-> FALSE, rejected |-> {}],
     [ok |-> FALSE, applied |-> TRUE, rejected |-> {}]}

\* the calls index_documents(documents) with n documents
IndexCalls(n) ==
    LET documents == [k \in 1..n |-> IndexDoc(k)]
    IN  {[component |-> "index_documents", documents |-> documents, outs |-> outs] :
            outs \in [1..((n + index_batch_size - 1) \div index_batch_size)
                        -> SubOutcomeChoices]}

InitIndex ==
    /\ corpus = <<>>
    /\ PipelineIdle
    /\ \E n \in IndexBatchSizes : fin \in IndexCalls(n)
    /\ fout = NoCall

\* typesense_client.index_documents(documents) on an empty collection
CallIndexDocuments ==
    /\ fin.component = "index_documents"
    /\ fout = NoCall
    /\ fout' = [component |-> "index_documents",
                result |-> index_documents(<<>>, fin.documents, fin.outs)]
    /\ UNCHANGED <<corpus, collection_exists, index, clock, runs, pc, args, existing_paths,
                   files_to_process, processed_documents, failed_count, fi, cur, report,
                   hist, fin>>

NextIndex == CallIndexDocuments

SpecIndex == InitIndex /\ [][NextIndex]_vars

-----------------------------------------------------------------------------
(* SpecReceipt: one process over a listing of one image, receipt.png, whose OCR   *)
(* text, entities and embedding are given.                                       *)

RECEIPT_NAME == <<"r","e","c","e","i","p","t",".","p","n","g">>
RECEIPT_TEXT == <<"P","a","i","d"," ","$","4","0"," ","t","o"," ","J","."," ","S","m","i","t","h"," ","o","n"," ","3"," ","J","u","n","e"," ","1","9","5","5">>
J_SMITH == <<"J","."," ","S","m","i","t","h">>
RECEIPT_DATE == <<"3"," ","J","u","n","e"," ","1","9","5","5">>
RECEIPT_SUMMARY == <<"A"," ","p","a","y","m","e","n","t"," ","r","e","c","o","r","d",".">>
RECEIPT_YEAR == <<"1","9","5","5">>

ReceiptFile ==
    [id |-> <<"r">>, name |-> RECEIPT_NAME, mime_type |-> PNG_MIME_TYPE,
     web_view_link |-> None]

\* the bytes of receipt.png: an image in which the OCR backend reads RECEIPT_TEXT
ReceiptContent ==
    [docx_ok |-> FALSE, paragraphs |-> <<>>, rows |-> <<>>,
     pdf_ok |-> FALSE, pages |-> <<>>,
     raster_ok |-> FALSE, scans |-> <<>>,
     image_ok |-> TRUE, image |-> [ocr_ok |-> TRUE, text |-> RECEIPT_TEXT]]

ReceiptReply ==
    [kind |-> "json",
     value |-> PyObj([people |-> PyList(<< PyStr(J_SMITH) >>), locations |-> EmptyList,
                      dates |-> PyList(<< PyStr(RECEIPT_DATE) >>),
                      summary |-> PyStr(RECEIPT_SUMMARY),
                      publication_date |-> PyStr(RECEIPT_YEAR)])]

InitReceipt ==
    /\ corpus = <<ReceiptFile>>
    /\ PipelineIdle
    /\ fin = NoCall
    /\ fout = NoCall

NextReceipt ==
    \/ \E a \in ArgChoices : StartFirstRun(a)
    \/ \E ok \in BOOLEAN : InitClients(ok)
    \/ CreateCollection
    \/ GetExisting
    \/ \E ok \in BOOLEAN : ListAndFilter(ok)
    \/ \E ok \in BOOLEAN : Download(ok, ReceiptContent)
    \/ ExtractText
    \/ ExtractEntities(ReceiptReply)
    \/ \E ok \in BOOLEAN : EmbedAttempt(ok)
    \/ Assemble
    \/ \E outs \in FlushOutcomes(processed_documents) : Flush(outs)
    \/ \E outs \in FlushOutcomes(processed_documents) : FinalFlush(outs)
    \/ Summary
    \/ Interrupt

SpecReceipt == InitReceipt /\ [][NextReceipt]_vars

-----------------------------------------------------------------------------
(* SpecExport: one process with --export-csv over listings of up to              *)
(* NumFiles + 1 files, with batch sizes below, at and above the number of files; *)
(* downloads fail at will.                                                       *)

EXPORT_PATH == <<"o","u","t",".","c","s","v">>

ExportArgChoices ==
    [reprocess : {FALSE}, dry_run : {FALSE}, limit : {None},
     batch_size : 1..(MaxBatch + 1), export_csv : {None, PyStr(EXPORT_PATH)}]

InitExport ==
    /\ corpus \in {[k \in 1..n |-> MakeFile(k)] : n \in 0..(NumFiles + 1)}
    /\ PipelineIdle
    /\ fin = NoCall
    /\ fout = NoCall

NextExport ==
    \/ \E a \in ExportArgChoices : StartFirstRun(a)
    \/ InitClients(TRUE)
    \/ CreateCollection
    \/ GetExisting
    \/ ListAndFilter(TRUE)
    \/ \E ok \in BOOLEAN : Download(ok, GoodContent)
    \/ ExtractText
    \/ ExtractEntities(GoodReply)
    \/ EmbedAttempt(TRUE)
    \/ Assemble
    \/ Flush(AllOk(processed_documents))
    \/ FinalFlush(AllOk(processed_documents))
    \/ Summary

SpecExport == InitExport /\ [][NextExport]_vars

-----------------------------------------------------------------------------
(* SpecCsv: export_to_csv on its own, over documents whose file names hold the   *)
(* characters the CSV format gives a meaning to, and whose entity fields are     *)
(* lists of 0 to MaxItems items or plain strings.                                *)

MaxItems == 2   \* the entity lists have 0..MaxItems items

\* file names: plain, with a comma and a quote character, with a line break, with
\* white space around
CsvFileNames ==
    {<<"d","1">>,
     <<"a",",","b"," ","\"","c","\"">>,
     <<"l","1","\n","l","2">>,
     <<" ","e",";"," ">>}

\* the k-th item of an entity list: A, B, P3, P4, ...
CsvItem(k) ==
    IF k = 1 THEN <<"A">> ELSE IF k = 2 THEN <<"B">> ELSE <<"P">> \o IntToStr(k)

\* the entity lists of 0..MaxItems items, and a plain string
CsvEntityValues ==
    {PyList([k \in 1..n |-> PyStr(CsvItem(k))]) : n \in 0..MaxItems}
        \cup {PyStr(<<"A",","," ","B">>)}

\* the documents process_file builds for these names and entities
CsvDocuments ==
    {document_of([id |-> <<"f">>, name |-> name, mime_type |-> PDF_MIME_TYPE,
                   web_view_link |-> None],
                 [people |-> people, locations |-> EmptyList, dates |-> dates,
                  summary |-> PyStr(<<"S",",","s">>), publication_date |-> EmptyStr],
                 <<"t","\n","u">>, PyList(BackendVector), 1) :
        name \in CsvFileNames, people \in CsvEntityValues, dates \in CsvEntityValues}

\* the calls export_to_csv(documents, output_path): no document, one, or two
CsvCalls ==
    {[component |-> "export_to_csv", documents |-> documents] :
        documents \in {<<>>} \cup {<<doc>> : doc \in CsvDocuments}
                         \cup {<<IndexDoc(1), doc>> : doc \in CsvDocuments}}

InitCsv ==
    /\ corpus = <<>>
    /\ PipelineIdle
    /\ fin \in CsvCalls
    /\ fout = NoCall

\* export_to_csv(documents, output_path)
CallExportToCsv ==
    /\ fin.component = "export_to_csv"
    /\ fout = NoCall
    /\ fout' = [component |-> "export_to_csv", result |-> export_to_csv(fin.documents)]
    /\ UNCHANGED <<corpus, collection_exists, index, clock, runs, pc, args, existing_paths,
                   files_to_process, processed_documents, failed_count, fi, cur, report,
                   hist, fin>>

NextCsv == CallExportToCsv

SpecCsv == InitCsv /\ [][NextCsv]_vars

-----------------------------------------------------------------------------
(* SpecEnv: one process in an environment that does more than the pipeline       *)
(* expects: the listing holds a file of a content type that was not asked for,   *)
(* and another writer stores documents in the collection while the process runs. *)

\* a listed file with a content type outside SUPPORTED_MIME_TYPES
TextFile ==
    [id |-> <<"t">>, name |-> <<"n","o","t","e","s",".","t","x","t">>,
     mime_type |-> TEXT_MIME_TYPE, web_view_link |-> None]

\* the listing: the text file after the first of NumFiles supported files
EnvCorpus == <<MakeFile(1), TextFile>> \o [k \in 1..(NumFiles - 1) |-> MakeFile(k + 1)]

EnvArgChoices ==
    [reprocess : BOOLEAN, dry_run : {FALSE}, limit : {None}, batch_size : 1..MaxBatch,
     export_csv : {None}]

\* another writer (a second ingest.py process) stores the document of the k-th
\* supported file, which is not in the collection yet
ExternalWrite(k) ==
    /\ collection_exists
    /\ file_path_of(MakeFile(k)) \notin {index[j].file_path : j \in 1..Len(index)}
    /\ index' = ServerUpsert(index, document_of(MakeFile(k), EntityExtractor_extract(GoodReply),
                                                 <<"t">>, PyList(BackendVector), clock))
    /\ UNCHANGED <<corpus, collection_exists, clock, runs, pc, args, existing_paths,
                   files_to_process, processed_documents, failed_count, fi, cur, report,
                   hist, fin, fout>>

InitEnv ==
    /\ corpus = EnvCorpus
    /\ PipelineIdle
    /\ fin = NoCall
    /\ fout = NoCall

NextEnv ==
    \/ \E a \in EnvArgChoices : StartFirstRun(a)
    \/ InitClients(TRUE)
    \/ CreateCollection
    \/ GetExisting
    \/ ListAndFilter(TRUE)
    \/ Download(TRUE, GoodContent)
    \/ ExtractText
    \/ ExtractEntities(GoodReply)
    \/ EmbedAttempt(TRUE)
    \/ Assemble
    \/ Flush(AllOk(processed_documents))
    \/ FinalFlush(AllOk(processed_documents))
    \/ Summary
    \/ \E k \in 1..NumFiles : ExternalWrite(k)

SpecEnv == InitEnv /\ [][NextEnv]_vars

-----------------------------------------------------------------------------
(* SpecExisting: TypeSenseClient.get_existing_file_paths on its own, over          *)
(* collections of sizes around the multiples of per_page, with and without       *)
(* documents that share a file_path.                                             *)

MaxPages == 2    \* the collections fill up to MaxPages pages
MaxOff == 4      \* and have up to MaxOff documents less or more than full pages

ExistingSizes ==
    {n \in {p * per_page + d : p \in 0..MaxPages, d \in (0 - MaxOff)..MaxOff} : n >= 0}

\* the file whose document is the k-th of the collection: every document of another
\* file, two documents of every file, or all documents of one file
StoredFile(sharing, k) ==
    CASE sharing = "none" -> k
      [] sharing = "pairs" -> (k + 1) \div 2
      [] sharing = "all" -> 1

\* a collection of n documents, as the server stores them
StoredCollection(n, sharing) ==
    [k \in 1..n |-> [id |-> IntToStr(k - 1)] @@ IndexDoc(StoredFile(sharing, k))]

\* the calls get_existing_file_paths() on a collection of n documents, and the call
\* on a server without the collection
ExistingCalls(n) ==
    {[component |-> "get_existing_file_paths", exists |-> TRUE,
      index |-> StoredCollection(n, sharing)] : sharing \in {"none", "pairs", "all"}}
        \cup {[component |-> "get_existing_file_paths", exists |-> FALSE, index |-> <<>>]}

InitExisting ==
    /\ corpus = <<>>
    /\ PipelineIdle
    /\ \E n \in ExistingSizes : fin \in ExistingCalls(n)
    /\ fout = NoCall

\* typesense_client.get_existing_file_paths()
CallGetExisting ==
    /\ fin.component = "get_existing_file_paths"
    /\ fout = NoCall
    /\ fout' = [component |-> "get_existing_file_paths",
                result |-> get_existing_file_paths(fin.exists, fin.index)]
    /\ UNCHANGED <<corpus, collection_exists, index, clock, runs, pc, args, existing_paths,
                   files_to_process, processed_documents, failed_count, fi, cur, report,
                   hist, fin>>

NextExisting == CallGetExisting

SpecExisting == InitExisting /\ [][NextExisting]_vars

-----------------------------------------------------------------------------
(* SpecEmbed: build_text_for_embedding and EmbeddingsClient.generate on their     *)
(* own: sources that are empty or not, texts around ocr_preview_chars and         *)
(* embed_max_chars long, every max_retries from 0 on, and every way the          *)
(* embedding backend can answer or fail call after call.                         *)

MaxRetryArg == 4   \* max_retries ranges over 0..MaxRetryArg

\* a text of n characters; the characters after the first `cut` ones differ from
\* them
LongText(n, cut) == [k \in 1..n |-> IF k <= cut THEN "a" ELSE "b"]

EmbedTextLengths == {0, 1, embed_max_chars - 1, embed_max_chars, embed_max_chars + 1}

\* the k-th call's answer: a vector of its own, or an exception
Answer(k, ok) == IF ok THEN [ok |-> TRUE, embedding |-> <<k>>] ELSE [ok |-> FALSE]

GenerateCalls(retries) ==
    {[component |-> "generate",
      text |-> LongText(n, embed_max_chars),
      max_retries |-> retries,
      answers |-> [k \in 1..retries |-> Answer(k, oks[k])]]
        : n \in EmbedTextLengths, oks \in [1..retries -> BOOLEAN]}

PreviewLengths == {0, 1, ocr_preview_chars - 1, ocr_preview_chars, ocr_preview_chars + 1}

NameList(names) == PyList([k \in 1..Len(names) |-> PyStr(names[k])])

BuildCalls(n) ==
    {[component |-> "build_text_for_embedding",
      ocr_content |-> LongText(n, ocr_preview_chars),
      summary |-> summary, people |-> people, locations |-> locations, dates |-> dates]
        : summary \in {EmptyStr, PyStr(<<"S">>)},
          people \in {EmptyList, NameList(<< <<"A">> >>), NameList(<< <<"A">>, <<"B">> >>)},
          locations \in {EmptyList, NameList(<< <<"L">> >>)},
          dates \in {EmptyList, NameList(<< <<"1","9","5","5">> >>)}}

InitEmbed ==
    /\ corpus = <<>>
    /\ PipelineIdle
    /\ \/ \E retries \in 0..MaxRetryArg : fin \in GenerateCalls(retries)
       \/ \E n \in PreviewLengths : fin \in BuildCalls(n)
    /\ fout = NoCall

\* embeddings_client.generate(text, max_retries)
CallGenerate ==
    /\ fin.component = "generate"
    /\ fout = NoCall
    /\ fout' = [component |-> "generate",
                result |-> generate(fin.text, fin.max_retries, fin.answers)]
    /\ UNCHANGED <<corpus, collection_exists, index, clock, runs, pc, args, existing_paths,
                   files_to_process, processed_documents, failed_count, fi, cur, report,
                   hist, fin>>

\* build_text_for_embedding(ocr_content, summary, people, locations, dates)
CallBuild ==
    /\ fin.component = "build_text_for_embedding"
    /\ fout = NoCall
    /\ fout' = [component |-> "build_text_for_embedding",
                result |-> build_text_for_embedding(fin.ocr_content, fin.summary, fin.people,
                                                    fin.locations, fin.dates)]
    /\ UNCHANGED <<corpus, collection_exists, index, clock, runs, pc, args, existing_paths,
                   files_to_process, processed_documents, failed_count, fi, cur, report,
                   hist, fin>>

NextEmbed == CallGenerate \/ CallBuild

SpecEmbed == InitEmbed /\ [][NextEmbed]_vars

-----------------------------------------------------------------------------
(* SpecUpdate: FolderPathCapture.update_typesense_documents on its own, over      *)
(* collections of up to MaxStored documents, with folders found for some of the   *)
(* files, and the server taking or refusing every update.                         *)

MaxStored == 3   \* the collection holds 0..MaxStored documents

\* the folder found for the k-th file
FolderOf(k) == <<"F">> \o IntToStr(k)

\* a collection of n documents, one per file; the documents at the positions
\* `blank` have an empty drive_file_id
UpdateCollection(n, blank) ==
    [k \in 1..n |-> IF k \in blank
                    THEN [StoredCollection(n, "none")[k] EXCEPT !.drive_file_id = <<>>]
                    ELSE StoredCollection(n, "none")[k]]

UpdateCalls(n) ==
    {[component |-> "update_typesense_documents",
      index |-> UpdateCollection(n, blank),
      file_to_path |-> [id \in {MakeFile(k).id : k \in found} |->
                           FolderOf(CHOOSE k \in found : MakeFile(k).id = id)],
      oks |-> oks]
        : blank \in {{}, {1} \cap 1..n}, found \in SUBSET (1..n), oks \in [1..n -> BOOLEAN]}

InitUpdate ==
    /\ corpus = <<>>
    /\ PipelineIdle
    /\ \E n \in 0..MaxStored : fin \in UpdateCalls(n)
    /\ fout = NoCall

\* capture.update_typesense_documents(file_to_path)
CallUpdateDocuments ==
    /\ fin.component = "update_typesense_documents"
    /\ fout = NoCall
    /\ fout' = [component |-> "update_typesense_documents",
                result |-> update_typesense_documents(fin.index, fin.file_to_path, fin.oks)]
    /\ UNCHANGED <<corpus, collection_exists, index, clock, runs, pc, args, existing_paths,
                   files_to_process, processed_documents, failed_count, fi, cur, report,
                   hist, fin>>

NextUpdate == CallUpdateDocuments

SpecUpdate == InitUpdate /\ [][NextUpdate]_vars

-----------------------------------------------------------------------------
(* Properties *)

\* the process has its candidate list: it is past lines 219-229
Listed ==
    pc \in {"download", "extract_text", "entities", "embedding", "assemble", "flush",
            "final_flush", "summary", "done"}

\* the process ran to its summary
Finished == pc = "done" /\ report.printed

IndexPaths == {index[k].file_path : k \in 1..Len(index)}

\* the file_path of the listed files that are not excluded by name
ListedPaths == {file_path_of(f) : f \in {g \in Range(corpus) : g.name \notin EXCLUDED_FILE_NAMES}}

NoDuplicates(seq) == \A i, j \in 1..Len(seq) : seq[i] = seq[j] => i = j

Count(seq, v) == Cardinality({k \in 1..Len(seq) : seq[k] = v})

Last(seq) == seq[Len(seq)]

\* C1: after any sequence of runs, reprocessing included, the index holds at most one
\* document per dedup key (file_path)
C1_OneDocumentPerKey ==
    \A i, j \in 1..Len(index) : index[i].file_path = index[j].file_path => i = j

\* C2, as stated: in a run without --reprocess that follows a complete run without
\* --reprocess over the same corpus, the filtered candidate list is empty
C2_SecondRunHasNoCandidates ==
    (hist.after_full_run /\ ~args.reprocess /\ Listed) => files_to_process = <<>>

\* C2, amended: in a run without --reprocess that follows a complete run without
\* --reprocess, no candidate is a file whose document is in the index when the run
\* starts, the candidates are exactly the other listed files (up to --limit), so the
\* list is empty when every listed file has its document; and no document the run
\* stores is for a file that had one, or is stored twice
C2_SecondRunSkipsIndexedFiles ==
    (hist.after_full_run /\ ~args.reprocess /\ Listed) =>
        /\ \A k \in 1..Len(files_to_process) :
               file_path_of(files_to_process[k]) \notin hist.index_at_start
        /\ ~Truthy(args.limit) =>
               {file_path_of(f) : f \in Range(files_to_process)}
                   = ListedPaths \ hist.index_at_start
        /\ ListedPaths \subseteq hist.index_at_start => files_to_process = <<>>
        /\ \A k \in 1..Len(hist.stored) : hist.stored[k] \notin hist.index_at_start
        /\ NoDuplicates(hist.stored)

\* the second run found the first run's document of one file, and stored the
\* document of a file that the first run had not left in the index
C2_Witness ==
    /\ hist.after_full_run /\ ~args.reprocess /\ Finished
    /\ hist.index_at_start # {}
    /\ Len(files_to_process) = 1
    /\ Len(hist.stored) = 1

\* the positions in the candidate list of the files whose embedding failed on
\* every attempt
EmbeddingFailures ==
    {k \in 1..Len(hist.outcomes) : hist.outcomes[k] = "failed_embedding"}

\* nothing but embeddings failed: every other stage of every file went well and
\* the server stored every document it was sent
OnlyEmbeddingFaults ==
    /\ \A k \in 1..Len(hist.outcomes) : hist.outcomes[k] \in {"batched", "failed_embedding"}
    /\ ~hist.index_fault

\* the file_path of the candidates outside EmbeddingFailures, in order
OtherPaths ==
    SelectSeq([k \in 1..Len(files_to_process) |->
                  IF k \in EmbeddingFailures THEN <<>>
                  ELSE file_path_of(files_to_process[k])],
              LAMBDA path : path # <<>>)

\* C3: when the embedding of exactly the files in F fails on every attempt and nothing
\* else fails, the run goes through all N candidates, ends with a failure count of
\* |F| and with exactly the documents of the N - |F| other files in the index
C3_EmbeddingFailuresAreSkipped ==
    (Finished /\ OnlyEmbeddingFaults) =>
        /\ Len(hist.outcomes) = Len(files_to_process)
        /\ hist.downloads = [k \in 1..Len(files_to_process) |-> files_to_process[k].id]
        /\ failed_count = Cardinality(EmbeddingFailures)
        /\ report.failed = Cardinality(EmbeddingFailures)
        /\ hist.stored = OtherPaths
        /\ Len(index) = Len(files_to_process) - Cardinality(EmbeddingFailures)
        /\ IndexPaths = Range(OtherPaths)

\* the first of two candidates failed in the embedding, the second is in the index
C3_Witness ==
    /\ Finished
    /\ ~hist.index_fault
    /\ hist.outcomes = <<"failed_embedding", "batched">>
    /\ Len(index) = 1

CeilDiv(n, b) == (n + b - 1) \div b

\* the sizes of the ceil(n/b) chunks of n records: b in each but the last, which has
\* n mod b (b when b divides n)
ChunkSizes(n, b) ==
    [k \in 1..CeilDiv(n, b) |-> IF k * b <= n THEN b ELSE n - (k - 1) * b]

\* the sizes of the import_ calls that index_documents makes for batches of the
\* sizes `flushes`, all of b documents but the last
BulkSizes(flushes, b) ==
    LET c == CeilDiv(b, index_batch_size)
        total == IF flushes = <<>> THEN 0
                 ELSE (Len(flushes) - 1) * c + CeilDiv(Last(flushes), index_batch_size)
    IN  [j \in 1..total |->
            ChunkSizes(flushes[((j - 1) \div c) + 1], index_batch_size)[((j - 1) % c) + 1]]

\* C4, as stated: for N processed documents and batch size B, the index backend
\* receives ceil(N/B) bulk upsert calls, of B records each but the last
C4_BackendCallsAreBatches ==
    Finished => hist.bulk_calls = ChunkSizes(Len(hist.batched), args.batch_size)

\* C4, amended: index_documents is called ceil(N/B) times, with B documents each
\* time but the last; it sends each batch to the backend in bulk upsert calls of
\* at most index_batch_size records, which are the batches themselves when
\* B <= index_batch_size
C4_SinkCallsAreBatches ==
    Finished =>
        /\ hist.flushes = ChunkSizes(Len(hist.batched), args.batch_size)
        /\ hist.bulk_calls = BulkSizes(hist.flushes, args.batch_size)
        /\ \A k \in 1..Len(hist.bulk_calls) : hist.bulk_calls[k] <= index_batch_size
        /\ args.batch_size <= index_batch_size => hist.bulk_calls = hist.flushes

\* two batches larger than index_batch_size went to the backend in four calls
C4_Witness ==
    /\ Finished
    /\ args.batch_size > index_batch_size
    /\ Len(hist.flushes) = 2
    /\ Len(hist.bulk_calls) = 4

\* C5: the summary's count of indexed documents is the number of documents the
\* index accepted during the run, and its failed count covers every candidate that
\* was not indexed
C5_SummaryCountsWhatWasIndexed ==
    Finished =>
        /\ report.success_count = Len(hist.stored)
        /\ report.failed = Len(files_to_process) - Len(hist.stored)

\* the file_path of the listed file with the Drive id `id`
PathOfId(id) == {file_path_of(f) : f \in {g \in Range(corpus) : g.id = id}}

\* C6: a run without --reprocess that is started after a run was killed downloads and
\* processes no file whose document was in the index before the kill
C6_RestartSkipsCommittedFiles ==
    (hist.after_kill /\ ~args.reprocess) =>
        /\ \A k \in 1..Len(hist.downloads) :
               PathOfId(hist.downloads[k]) \cap hist.index_at_start = {}
        /\ (Running /\ cur # NoFile) => file_path_of(CurFile) \notin hist.index_at_start
        /\ \A k \in 1..Len(hist.batched) : hist.batched[k] \notin hist.index_at_start

\* restarted after a kill that left a document in the index, the run downloads
\* another file
C6_Witness ==
    /\ hist.after_kill /\ ~args.reprocess
    /\ hist.index_at_start # {}
    /\ hist.downloads # <<>>
    /\ pc = "extract_text"

StageOrder == <<"download", "extract_text", "entities", "embedding", "assemble">>

IsPrefix(s, t) == Len(s) <= Len(t) /\ \A k \in 1..Len(s) : s[k] = t[k]

FileStagePcs == {"extract_text", "entities", "embedding", "assemble"}

\* the stages of the current file are entered in the order of StageOrder; every file
\* gone through has one outcome, batched or failed, and the failure counter and the
\* batch history count them
C7_StagesInOrder ==
    /\ IsPrefix(hist.stages, StageOrder)
    /\ Len(hist.outcomes) <= Len(files_to_process)
    /\ pc \in FileStagePcs => Len(hist.outcomes) = fi - 1
    /\ failed_count = Len(hist.outcomes) - Count(hist.outcomes, "batched")
    /\ Len(hist.batched) = Count(hist.outcomes, "batched")
    /\ Finished => Len(hist.outcomes) = Len(files_to_process)

\* a step in which a file gets its outcome: a batched file has gone through all of
\* StageOrder and is appended to the batch; a failed file adds one to the failure
\* counter and nothing to the batch or the index, its stages end where it failed,
\* and the loop is at the next file
C7_FileEnds ==
    (Len(hist'.outcomes) = Len(hist.outcomes) + 1) =>
        IF Last(hist'.outcomes) = "batched"
        THEN /\ hist'.stages = StageOrder
             /\ failed_count' = failed_count
             /\ Len(processed_documents') = Len(processed_documents) + 1
        ELSE /\ hist'.stages = SliceTo(StageOrder, Len(hist'.stages))
             /\ Len(hist'.stages) <= Len(hist.stages) + 1
             /\ failed_count' = failed_count + 1
             /\ processed_documents' = processed_documents
             /\ index' = index
             /\ fi' = fi + 1
             /\ pc' = IF fi' > Len(files_to_process) THEN "final_flush" ELSE "download"

\* C7: each candidate passes download, text extraction, entity extraction, embedding
\* and assembly in that order; a failing stage ends the file, adds exactly one to the
\* failure counter and nothing to the batch, and the loop goes on with the next file;
\* every candidate ends as batched or as failed, never both
C7_StagesShortCircuit == []C7_StagesInOrder /\ [][C7_FileEnds]_vars

\* a file failed in the entity stage and the next one was batched
C7_Witness ==
    /\ hist.outcomes = <<"failed", "batched">>
    /\ failed_count = 1
    /\ Len(hist.batched) = 1
    /\ hist.stages = StageOrder

\* C8: the embedding backend is called at most max_retries (3) times per file; the
\* first call that answers ends the loop and its vector is the result; when every
\* call fails the file is counted as failed and no document of it is batched or
\* indexed
C8_EmbeddingRetries ==
    /\ hist.embed_calls <= max_retries
    /\ pc = "embedding" => hist.embed_calls = cur.attempt /\ Len(hist.waits) = cur.attempt
    /\ pc = "assemble" =>
           /\ cur.embedding = PyList(BackendVector)
           /\ hist.embed_calls = cur.attempt + 1
    /\ (/\ pc \in {"download", "final_flush", "summary", "done"}
        /\ hist.outcomes # <<>>
        /\ Last(hist.outcomes) = "failed_embedding") =>
           /\ hist.embed_calls = max_retries
           /\ failed_count >= 1
           /\ file_path_of(files_to_process[Len(hist.outcomes)])
                  \notin Range(hist.batched) \cup Range(hist.stored) \cup IndexPaths

\* the only candidate failed after max_retries calls, with the waits 1 s and 2 s
\* between them
C8_Witness ==
    /\ Finished
    /\ hist.outcomes = <<"failed_embedding">>
    /\ hist.embed_calls = max_retries
    /\ hist.waits = <<1, 2>>
    /\ index = <<>>

\* C9: whatever the backend does, the record the entity extractor returns has
\* people, locations, dates and summary, none of them null
C9_NoNullField ==
    fout.component = "extract" =>
        \A key \in {"people", "locations", "dates", "summary"} :
            key \in DOMAIN fout.result /\ fout.result[key] # None

\* C10: for a PDF, the pages are rasterized and the OCR backend is called if and only
\* if the stripped direct text is shorter than min_direct_chars; at min_direct_chars
\* or above the direct text is returned and the OCR backend is not called
C10_OcrIffDirectTextIsShort ==
    (fout.component = "process_document" /\ fin.mime_type = PDF_MIME_TYPE) =>
        LET direct_text == DirectPDF_extract_text(fin.content)
            short == Len(Strip(direct_text)) < min_direct_chars
            r == fout.result
        IN  /\ r.direct_calls = 1
            /\ r.raster_calls = (IF short THEN 1 ELSE 0)
            /\ (short /\ fin.content.raster_ok) =>
                   r.ocr_calls = Min(Len(fin.content.scans), max_ocr_pages)
            /\ ~short => (~r.raised /\ r.text = direct_text /\ r.ocr_calls = 0)

\* a PDF with scans to read whose stripped direct text has exactly min_direct_chars
\* characters, white space after it: the direct text is returned
C10_Witness ==
    /\ fout.component = "process_document"
    /\ fin.mime_type = PDF_MIME_TYPE
    /\ fin.content.raster_ok /\ fin.content.scans # <<>>
    /\ Len(Strip(DirectPDF_extract_text(fin.content))) = min_direct_chars
    /\ Len(DirectPDF_extract_text(fin.content)) > min_direct_chars
    /\ fout.result.ocr_calls = 0
    /\ fout.result.text = DirectPDF_extract_text(fin.content)

SUPPORTED_CONTENT_TYPES == {DOCX_MIME_TYPE, PDF_MIME_TYPE, PNG_MIME_TYPE}

\* C11: for a Word document, a PDF or an image, process_document does not raise when
\* a backend fails (bytes that no library reads, a rasterization failure, an OCR
\* error): it returns a text, empty when nothing could be read
C11_ExtractorNeverRaises ==
    (fout.component = "process_document" /\ fin.mime_type \in SUPPORTED_CONTENT_TYPES) =>
        ~fout.result.raised

\* the entity extractor is given text that is not blank, and a record with no
\* entities raises neither in build_text_for_embedding nor in text_for_search
C12_EntityInputIsNotBlank ==
    /\ pc \in {"entities", "embedding", "assemble"} => Strip(cur.ocr_text) # <<>>
    /\ pc = "entities" =>
           ~build_text_for_embedding(cur.ocr_text, empty_result.summary, empty_result.people,
                                     empty_result.locations, empty_result.dates).raised
    /\ ~text_for_search_raises(empty_result)

\* a text extraction that returns without raising goes on to the entities, with the
\* placeholder when the text is blank; an empty entity record goes on to the
\* embedding, and is batched once it has its vector
C12_SoftFailureGoesOn ==
    /\ (pc = "extract_text" /\ pc' # "killed") =>
           LET r == process_document(cur.content, CurFile.mime_type)
           IN  ~r.raised =>
                   /\ pc' = "entities"
                   /\ failed_count' = failed_count
                   /\ Strip(r.text) = <<>> => cur'.ocr_text = NO_TEXT_PLACEHOLDER
                   /\ Strip(r.text) # <<>> => cur'.ocr_text = r.text
    /\ (pc = "entities" /\ cur'.entities = empty_result) =>
           pc' = "embedding" /\ failed_count' = failed_count
    /\ (pc = "assemble" /\ cur.entities = empty_result /\ pc' # "killed") =>
           /\ failed_count' = failed_count
           /\ Len(processed_documents') = Len(processed_documents) + 1
           /\ Last(processed_documents').people = EmptyList
           /\ Last(processed_documents').ocr_content = cur.ocr_text

\* C12: text extraction that returns blank text does not end the file: the placeholder
\* takes the place of the text, the entity extractor is called with it, and an
\* all-empty entity record still goes through embedding, assembly and batching
C12_SoftFailuresDoNotAbort == []C12_EntityInputIsNotBlank /\ [][C12_SoftFailureGoesOn]_vars

\* a file with nothing legible and no entities found was batched with the placeholder
C12_Witness ==
    /\ processed_documents # <<>>
    /\ Last(hist.outcomes) = "batched"
    /\ Last(processed_documents).ocr_content = NO_TEXT_PLACEHOLDER
    /\ Last(processed_documents).people = EmptyList
    /\ Last(processed_documents).summary = EmptyStr
    /\ failed_count = 0

\* the listed files that should be candidates: the name is not excluded, and
\* --reprocess is given or the index had no document with the file's key
ExpectedCandidates ==
    SelectSeq(corpus,
              LAMBDA f : /\ f.name \notin EXCLUDED_FILE_NAMES
                         /\ (args.reprocess \/ file_path_of(f) \notin hist.index_at_start))

\* C13: a listed file is a candidate if and only if its name is not in
\* EXCLUDED_FILE_NAMES and (--reprocess is given or its key is not among the existing
\* keys); a file with an excluded name is never processed, and with --reprocess the
\* existing keys are not looked up
C13_CandidateFilter ==
    /\ Listed =>
           /\ IsPrefix(files_to_process, ExpectedCandidates)
           /\ args.limit = None => files_to_process = ExpectedCandidates
    /\ \A k \in 1..Len(hist.downloads) :
           \A f \in Range(corpus) :
               f.id = hist.downloads[k] => f.name \notin EXCLUDED_FILE_NAMES
    /\ args.reprocess => hist.lookups = 0 /\ existing_paths = {}
    /\ (~args.reprocess /\ Listed) => hist.lookups = 1

\* with --reprocess and documents in the index, every file but the excluded one is a
\* candidate and the existing keys were not looked up
C13_Witness ==
    /\ Listed
    /\ args.reprocess /\ args.limit = None
    /\ hist.index_at_start # {}
    /\ hist.lookups = 0
    /\ Len(files_to_process) = NumFiles
    /\ Len(corpus) = NumFiles + 1

\* the candidates before the cap: the listed files that pass the filters
FilteredCandidates == filter_files(corpus, hist.index_at_start)

\* C14: with a cap L >= 0 on the command line, at most L files are processed, and they
\* are the first L of the filtered candidate list
C14_CapIsApplied ==
    (Listed /\ ~args.reprocess /\ args.limit # None) =>
        /\ Len(files_to_process) <= args.limit.v
        /\ Len(hist.downloads) <= args.limit.v
        /\ files_to_process = SubSeq(FilteredCandidates, 1,
                                      Min(args.limit.v, Len(FilteredCandidates)))

\* C14, for a cap of at least 1: the first L filtered candidates are the files of the run
C14_PositiveCapIsApplied ==
    (Listed /\ ~args.reprocess /\ args.limit # None /\ args.limit.v > 0) =>
        files_to_process = SubSeq(FilteredCandidates, 1,
                                  Min(args.limit.v, Len(FilteredCandidates)))

\* C15: a dry run ends after the candidate list: it downloads nothing, calls no text
\* extraction, entity or embedding backend, sends no upsert, and leaves the documents
\* of the index as they were
C15_DryRunChangesNothing ==
    args.dry_run =>
        /\ pc \in {"init_clients", "create_collection", "get_existing", "list_files",
                   "done", "crashed"}
        /\ hist.downloads = <<>>
        /\ hist.stages = <<>>
        /\ hist.embed_calls = 0
        /\ hist.flushes = <<>> /\ hist.bulk_calls = <<>> /\ hist.stored = <<>>
        /\ processed_documents = <<>>
        /\ ~report.printed
        /\ Len(index) = hist.docs_at_start
        /\ IndexPaths = hist.index_at_start

\* a dry run over an index with documents ended with a candidate in its list
C15_Witness ==
    /\ args.dry_run
    /\ pc = "done"
    /\ files_to_process # <<>>
    /\ index # <<>>
    /\ collection_exists

\* the sub-batch of the j-th document, and its position in it
SubBatchOf(j) == ((j - 1) \div index_batch_size) + 1
PositionOf(j) == ((j - 1) % index_batch_size) + 1

\* the positions in `documents` of the documents the backend reported as stored, in
\* the import_ calls that were answered
Reported ==
    {j \in 1..Len(fin.documents) :
        fin.outs[SubBatchOf(j)].ok /\ PositionOf(j) \notin fin.outs[SubBatchOf(j)].rejected}

\* C16: in index_documents a sub-batch whose call raises keeps no later sub-batch
\* from being written, and the returned count is the number of documents the backend
\* reported as successful in the calls it answered, between 0 and len(documents)
C16_TransportFailureIsContained ==
    fout.component = "index_documents" =>
        LET r == fout.result
            n == Len(fin.documents)
        IN  /\ Len(r.calls) = CeilDiv(n, index_batch_size)
            /\ r.success_count = Cardinality(Reported)
            /\ 0 <= r.success_count /\ r.success_count <= n
            /\ \A j \in Reported : fin.documents[j].file_path \in Range(r.stored)
            /\ \A j \in Reported :
                   \E i \in 1..Len(r.index) : r.index[i].file_path = fin.documents[j].file_path

\* the second of three import_ calls raised, the first and the third were stored
C16_Witness ==
    /\ fout.component = "index_documents"
    /\ Len(fin.documents) = 2 * index_batch_size + 1
    /\ fin.outs[1] = OkOutcome /\ ~fin.outs[2].ok /\ ~fin.outs[2].applied
    /\ fin.outs[3] = OkOutcome
    /\ fout.result.success_count = index_batch_size + 1
    /\ Len(fout.result.index) = index_batch_size + 1

\* C17: index_documents sends its documents in consecutive sub-batches of
\* index_batch_size, the last possibly shorter: every document once, in input order,
\* one import_ call per sub-batch, and none again for a sub-batch that failed
C17_SubBatchesPartition ==
    fout.component = "index_documents" =>
        LET r == fout.result
            n == Len(fin.documents)
        IN  /\ r.sent = [j \in 1..n |-> fin.documents[j].file_path]
            /\ r.calls = ChunkSizes(n, index_batch_size)

\* two full sub-batches and one document more went out in three calls, the first of
\* them failing
C17_Witness ==
    /\ fout.component = "index_documents"
    /\ fout.result.calls = <<index_batch_size, index_batch_size, 1>>
    /\ ~fin.outs[1].ok
    /\ Len(fout.result.sent) = 2 * index_batch_size + 1

\* C18: the creation timestamp of a key is set when its entry is first written and
\* stays through every later upsert of the key: all that is stored under one
\* file_path has the created_at of the first write, and created_at <= updated_at
C18_CreatedAtSetOnce ==
    /\ \A i \in 1..Len(index) : index[i].created_at <= index[i].updated_at
    /\ \A i, j \in 1..Len(index) :
           index[i].file_path = index[j].file_path =>
               index[i].created_at = index[j].created_at

\* scheme://file-id/file-name
KeyOf(id, name) == <<"g","d","r","i","v","e",":","/","/">> \o id \o <<"/">> \o name

\* the key of `doc` is made of its file id and file name, and is the key the filter
\* computes for the listed file it was built from
KeyIsConsistent(doc) ==
    /\ doc.file_path = KeyOf(doc.drive_file_id, doc.file_name)
    /\ \E f \in Range(corpus) :
           /\ f.id = doc.drive_file_id /\ f.name = doc.file_name
           /\ listing_path_of(f) = doc.file_path

\* C19: the dedup key is gdrive://file-id/file-name, a function of the file id and
\* the file name alone: the key the filter computes for a listed file is the key in
\* the document assembled for it, in every run, so it is the key found in the index
\* by a later run
C19_KeyIsDeterministic ==
    /\ \A f \in Range(corpus) :
           listing_path_of(f) = KeyOf(f.id, f.name) /\ listing_path_of(f) = file_path_of(f)
    /\ \A k \in 1..Len(processed_documents) : KeyIsConsistent(processed_documents[k])
    /\ \A k \in 1..Len(index) : KeyIsConsistent(index[k])
    /\ existing_paths \subseteq {listing_path_of(f) : f \in Range(corpus)}

\* a second run assembled, for a file indexed by the first, a document with the key
\* that is in the index
C19_Witness ==
    /\ runs = 2
    /\ hist.index_at_start # {}
    /\ processed_documents # <<>>
    /\ Last(processed_documents).file_path \in hist.index_at_start

\* `sub` occurs in `s`
Contains(s, sub) ==
    \E i \in 0..(Len(s) - Len(sub)) : SubSeq(s, i + 1, i + Len(sub)) = sub

\* the fields of the record assembled for receipt.png, but for its source_type
ReceiptFields(doc) ==
    /\ doc.file_name = RECEIPT_NAME
    /\ doc.people = PyList(<< PyStr(J_SMITH) >>)
    /\ doc.publication_date = PyStr(RECEIPT_YEAR)
    /\ Contains(doc.text_for_search, RECEIPT_NAME)
    /\ Contains(doc.text_for_search, J_SMITH)
    /\ doc.ocr_content = RECEIPT_TEXT
    /\ doc.embedding = PyList(BackendVector)

\* C20, as stated: the record assembled for receipt.png has source_type "primary",
\* people [J. Smith], publication_date 1955, a text_for_search with the file name and
\* J. Smith in it, and the embedding [0.1, 0.2, 0.3]
C20_ReceiptIsPrimary ==
    \A k \in 1..Len(processed_documents) :
        ReceiptFields(processed_documents[k]) /\ processed_documents[k].source_type = "primary"

\* C20, amended: the same record, with source_type "secondary": every document gets
\* the folder label FOLDER_LABEL, which is in SECONDARY_FOLDERS
C20_ReceiptIsSecondary ==
    /\ \A k \in 1..Len(processed_documents) :
           /\ ReceiptFields(processed_documents[k])
           /\ processed_documents[k].source_type = "secondary"
           /\ processed_documents[k].folder_path = FOLDER_LABEL
    /\ \A k \in 1..Len(index) :
           ReceiptFields(index[k]) /\ index[k].source_type = "secondary"

\* the record of receipt.png is assembled and in the index
C20_Witness ==
    /\ Finished
    /\ Len(processed_documents) = 1
    /\ Len(index) = 1
    /\ index[1].file_name = RECEIPT_NAME
    /\ index[1].source_type = "secondary"

\* the members of a set of integers, in ascending order
Sorted(S) == [j \in 1..Cardinality(S) |-> CHOOSE i \in S : Cardinality({x \in S : x <= i}) = j]

\* the pieces of `t` between the positions `seps`
SplitAt(t, seps) ==
    LET cuts == <<0>> \o Sorted(seps) \o <<Len(t) + 1>>
    IN  [k \in 1..(Len(cuts) - 1) |-> SubSeq(t, cuts[k] + 1, cuts[k + 1] - 1)]

\* the position i of `t` is outside a quoted field: an even number of quote
\* characters comes before it
Unquoted(t, i) == Cardinality({j \in 1..(i - 1) : t[j] = "\""}) % 2 = 0

\* a field as csv.reader returns it: of a field that starts with a quote character,
\* the first quote is dropped, and of the others the closing one and the first of
\* every doubled one
CsvUnquote(f) ==
    IF f = <<>> \/ f[1] # "\"" THEN f
    ELSE LET rest == Tail(f)
             kept == {i \in 1..Len(rest) :
                         rest[i] # "\"" \/ ~Unquoted(rest, i)}
             order == Sorted(kept)
         IN  [j \in 1..Len(order) |-> rest[order[j]]]

\* csv.reader on a file opened with newline='': the records are separated by the
\* line ends outside quoted fields, the fields of a record by the commas outside
\* quoted fields; DictReader skips the empty records
CsvRecords(t) ==
    LET lines == SplitAt(t, {i \in 1..Len(t) : t[i] \in {"\r", "\n"} /\ Unquoted(t, i)})
        fields(l) == SplitAt(l, {i \in 1..Len(l) : l[i] = "," /\ Unquoted(l, i)})
        records == SelectSeq(lines, LAMBDA l : l # <<>>)
    IN  [k \in 1..Len(records) |->
            LET fs == fields(records[k]) IN [j \in 1..Len(fs) |-> CsvUnquote(fs[j])]]

\* DictReader's value for a column the record is too short for (restval, None)
CSV_RESTVAL == <<"None">>

\* csv.DictReader: the rows after the header, each a mapping from the header's names
CsvRead(t) ==
    LET records == CsvRecords(t)
        header == records[1]
    IN  [k \in 1..(Len(records) - 1) |->
            [name \in Range(header) |->
                LET j == CHOOSE i \in 1..Len(header) : header[i] = name
                IN  IF j <= Len(records[k + 1]) THEN records[k + 1][j] ELSE CSV_RESTVAL]]

\* the rows of the export of the run, none when no file was written
ExportedRows == IF report.csv.written THEN CsvRead(report.csv.text) ELSE <<>>

\* C21: with --export-csv, the export written at the end of the run has one row for
\* every document processed in the run, whatever the number of documents and the
\* batch size
C21_ExportHasEveryDocument ==
    (Finished /\ Truthy(args.export_csv)) =>
        [k \in 1..Len(ExportedRows) |-> ExportedRows[k][CSV_HEADER[1]]] = hist.batched

\* the names of the columns
COL_FILE_NAME == CSV_HEADER[2]
COL_PEOPLE == CSV_HEADER[5]
COL_LOCATIONS == CSV_HEADER[6]
COL_DATES == CSV_HEADER[7]
COL_EMBEDDING == <<"e","m","b","e","d","d","i","n","g">>

RECURSIVE Flattened(_)
\* the items of a list of strings, with "; " between them
Flattened(items) ==
    IF items = <<>> THEN <<>>
    ELSE IF Len(items) = 1 THEN items[1].v
    ELSE items[1].v \o <<";", " ">> \o Flattened(Tail(items))

\* what is read back for a field of an exported document
ReadBackOf(v) == IF v.t = "list" THEN Flattened(v.v) ELSE v.v

\* C22: a record that is exported and read back has its file_name, has no embedding,
\* and has for people, locations and dates the items of the list joined with "; ":
\* people [A, B] is read back as the string "A; B"
C22_ExportRoundTrip ==
    (fout.component = "export_to_csv" /\ fin.documents # <<>>) =>
        LET rows == CsvRead(fout.result.text)
        IN  /\ fout.result.written
            /\ Len(rows) = Len(fin.documents)
            /\ \A k \in 1..Len(rows) :
                   LET doc == fin.documents[k]
                   IN  /\ DOMAIN rows[k] = Range(CSV_HEADER)
                       /\ COL_EMBEDDING \notin DOMAIN rows[k]
                       /\ rows[k][COL_FILE_NAME] = doc.file_name
                       /\ rows[k][COL_PEOPLE] = ReadBackOf(doc.people)
                       /\ rows[k][COL_LOCATIONS] = ReadBackOf(doc.locations)
                       /\ rows[k][COL_DATES] = ReadBackOf(doc.dates)
                       /\ doc.people = PyList(<< PyStr(<<"A">>), PyStr(<<"B">>) >>) =>
                              rows[k][COL_PEOPLE] = <<"A", ";", " ", "B">>

\* a document whose file name has a comma and a quote character in it, with the
\* people [A, B], was exported: the name is read back, and "A; B"
C22_Witness ==
    /\ fout.component = "export_to_csv"
    /\ Len(fin.documents) = 1
    /\ fin.documents[1].file_name = <<"a",",","b"," ","\"","c","\"">>
    /\ fin.documents[1].people = PyList(<< PyStr(<<"A">>), PyStr(<<"B">>) >>)
    /\ CsvRead(fout.result.text)[1][COL_FILE_NAME] = fin.documents[1].file_name
    /\ CsvRead(fout.result.text)[1][COL_PEOPLE] = <<"A", ";", " ", "B">>

\* the content type is neither Word document, PDF nor image
Unsupported(mime_type) ==
    /\ mime_type # DOCX_MIME_TYPE
    /\ mime_type # PDF_MIME_TYPE
    /\ ~StartsWith(mime_type, IMAGE_PREFIX)

\* no document of a file of an unsupported type is in the batch or in the index
C23_NothingBatched ==
    \A f \in Range(corpus) :
        Unsupported(f.mime_type) =>
            /\ file_path_of(f) \notin Range(hist.batched)
            /\ file_path_of(f) \notin IndexPaths
            /\ \A k \in 1..Len(processed_documents) :
                   processed_documents[k].file_path # file_path_of(f)

\* the text extraction of a file of an unsupported type raises without a call of an
\* extraction or OCR backend; the file is counted as failed, once, nothing is
\* batched or written, and the loop is at the next file
C23_UnsupportedFileFails ==
    (pc = "extract_text" /\ Unsupported(CurFile.mime_type) /\ pc' # "extract_text") =>
        LET r == process_document(cur.content, CurFile.mime_type)
        IN  /\ r.raised
            /\ r.raster_calls = 0 /\ r.ocr_calls = 0 /\ r.direct_calls = 0
            /\ failed_count' = failed_count + 1
            /\ hist'.outcomes = Append(hist.outcomes, "failed")
            /\ processed_documents' = processed_documents
            /\ hist'.batched = hist.batched
            /\ index' = index
            /\ fi' = fi + 1
            /\ pc' = IF fi' > Len(files_to_process) THEN "final_flush" ELSE "download"

\* C23: a content type that is neither Word document, PDF nor image makes
\* process_document raise before any extraction or OCR backend is called; in the
\* pipeline the file is counted once as failed, nothing of it is batched, and the run
\* goes on with the next file
C23_UnsupportedTypeFailsFast == []C23_NothingBatched /\ [][C23_UnsupportedFileFails]_vars

\* the run ended with the text file failed and the files before and after it batched
C23_Witness ==
    /\ Finished
    /\ Len(files_to_process) = NumFiles + 1
    /\ Unsupported(files_to_process[2].mime_type)
    /\ hist.outcomes[2] = "failed"
    /\ failed_count = 1
    /\ Len(hist.batched) = NumFiles

\* C24: a Word document is extracted directly, whatever the length of its text: the
\* PDF extractor, the rasterizer and the OCR backend are not called; bytes that
\* python-docx cannot read give the empty text, and no exception
C24_WordIsExtractedDirectly ==
    (fout.component = "process_document" /\ fin.mime_type = DOCX_MIME_TYPE) =>
        LET r == fout.result
        IN  /\ ~r.raised
            /\ r.direct_calls = 0 /\ r.raster_calls = 0 /\ r.ocr_calls = 0
            /\ r.text = extract_docx_text(fin.content)
            /\ ~fin.content.docx_ok => r.text = <<>>

\* a Word document with one character of text, whose pages the OCR backend could
\* read: the one character is the text, the OCR backend is not called
C24_Witness ==
    /\ fout.component = "process_document"
    /\ fin.mime_type = DOCX_MIME_TYPE
    /\ fin.content.docx_ok
    /\ fin.content.raster_ok /\ fin.content.scans = <<GoodScan>>
    /\ Len(Strip(fout.result.text)) < min_direct_chars
    /\ Len(Strip(fout.result.text)) > 0
    /\ fout.result.ocr_calls = 0

\* a collection that does not exist has no documents
C25_AbsentIsEmpty == ~collection_exists => index = <<>>

\* the collection is created by create_collection alone, and only when it is absent;
\* a create_collection that finds the collection leaves it and its documents as they
\* are; a collection that exists is never absent again, so it is created once
C25_CreateStep ==
    /\ (~collection_exists /\ collection_exists') => pc = "create_collection"
    /\ collection_exists => collection_exists'
    /\ (pc = "create_collection" /\ pc' = "get_existing") =>
           /\ collection_exists'
           /\ collection_exists => index' = index
           /\ ~collection_exists => index' = <<>>

\* C25: create_collection creates the collection only when it is absent: however
\* often it is called, the collection is created at most once, and an existing
\* collection and its documents are not modified, recreated or emptied
C25_CreateCollectionIsIdempotent == []C25_AbsentIsEmpty /\ [][C25_CreateStep]_vars

\* the create_collection of a second run found the collection, with the documents
\* of the first run in it, and left them there
C25_Witness ==
    /\ runs = 2
    /\ pc = "get_existing"
    /\ collection_exists
    /\ hist.docs_at_start = NumFiles
    /\ Len(index) = NumFiles

\* C26: get_existing_file_paths returns exactly the file_path values of the documents
\* of the collection, whatever their number (none, full pages, several pages); it
\* asks for the pages 1, 2, 3, ... in order, until one is short or empty; on a server
\* without the collection it returns the empty set
C26_ExistingKeysAreExact ==
    fout.component = "get_existing_file_paths" =>
        LET r == fout.result
            n == Len(fin.index)
        IN  /\ r.existing = {fin.index[k].file_path : k \in 1..n}
            /\ r.requests = [j \in 1..((n \div per_page) + 1) |-> j]
            /\ ~fin.exists => r.existing = {}
            /\ n = 0 => r.existing = {}

\* a collection of exactly two full pages of documents of different files: three
\* pages were asked for, and every key was found
C26_Witness ==
    /\ fout.component = "get_existing_file_paths"
    /\ Len(fin.index) = 2 * per_page
    /\ fout.result.requests = <<1, 2, 3>>
    /\ Cardinality(fout.result.existing) = 2 * per_page

\* C27: when a client cannot be set up at the start (a required configuration value
\* or the credential file is missing), the run ends there, with or without
\* --dry-run: no file is listed, downloaded or processed, no document is sent to the
\* index, and the collection is as it was
C27_StartupFailureAborts ==
    hist.startup_failed =>
        /\ pc = "crashed"
        /\ files_to_process = <<>> /\ processed_documents = <<>>
        /\ hist.lookups = 0
        /\ hist.downloads = <<>> /\ hist.stages = <<>> /\ hist.embed_calls = 0
        /\ hist.outcomes = <<>> /\ hist.batched = <<>>
        /\ hist.flushes = <<>> /\ hist.bulk_calls = <<>> /\ hist.stored = <<>>
        /\ Len(index) = hist.docs_at_start
        /\ IndexPaths = hist.index_at_start
        /\ ~report.printed

\* a run without --dry-run over a collection with documents ended at the start-up
C27_Witness ==
    /\ hist.startup_failed
    /\ pc = "crashed"
    /\ ~args.dry_run
    /\ index # <<>>

RECURSIVE Sum(_)
Sum(seq) == IF seq = <<>> THEN 0 ELSE Head(seq) + Sum(Tail(seq))

\* the files are taken in the order of the candidate list; the file at the head of
\* the loop is the next after files that all have their outcome, and the batch that
\* one of them filled has been written: what is batched is written or pending, and
\* the pending batch is not full
C28_OneFileAtATime ==
    /\ Listed => hist.downloads = [k \in 1..Len(hist.downloads) |-> files_to_process[k].id]
    /\ pc = "download" =>
           /\ Len(hist.downloads) = fi - 1
           /\ Len(hist.outcomes) = fi - 1
           /\ Len(processed_documents) < args.batch_size
           /\ Sum(hist.flushes) + Len(processed_documents) = Len(hist.batched)
    /\ pc \in FileStagePcs => Len(hist.downloads) = fi /\ Len(hist.outcomes) = fi - 1
    /\ pc = "flush" =>
           /\ Len(hist.outcomes) = fi
           /\ Len(processed_documents) = args.batch_size

\* a stage of a file is entered only when the file before it has its outcome, and
\* the write of a full batch is the one step between the file that filled it and
\* the next download
C28_StagesOfOneFile ==
    /\ (pc' \in FileStagePcs /\ pc # pc' /\ pc # "idle") =>
           /\ pc \in {"download"} \cup FileStagePcs
           /\ fi' = fi
           /\ hist'.outcomes = hist.outcomes
    /\ (pc = "flush" /\ pc' \notin {"flush", "killed"}) =>
           /\ hist'.flushes = Append(hist.flushes, Len(processed_documents))
           /\ processed_documents' = <<>>
           /\ hist'.downloads = hist.downloads

\* C28: the files are processed one after the other: no stage of a file begins
\* before the file before it in the candidate list is batched or failed, and the
\* write of a batch that a file filled is over before the next download begins
C28_FilesAreSequential == []C28_OneFileAtATime /\ [][C28_StagesOfOneFile]_vars

\* the first of two files filled the batch, the batch was written, and the second
\* file is being downloaded
C28_Witness ==
    /\ pc = "download"
    /\ fi = 2
    /\ args.batch_size = 1
    /\ hist.flushes = <<1>>
    /\ hist.outcomes = <<"batched">>
    /\ processed_documents = <<>>

\* the place of a position of process_file in the order of the stages
StageRank(p) ==
    CASE p = "download" -> 1 [] p = "extract_text" -> 2 [] p = "entities" -> 3
      [] p = "embedding" -> 4 [] p = "assemble" -> 5 [] OTHER -> 0

\* every candidate gone through was downloaded once, no stage is in the stages of
\* the current file twice, and the embedding backend was called 1 to max_retries
\* times for a file that has its vector
C29_CallsAreCounted ==
    /\ Listed =>
           /\ hist.downloads = [k \in 1..Len(hist.downloads) |-> files_to_process[k].id]
           /\ NoDuplicates(hist.downloads)
           /\ Len(hist.downloads) <= Len(files_to_process)
    /\ Finished => Len(hist.downloads) = Len(files_to_process)
    /\ NoDuplicates(hist.stages)
    /\ hist.embed_calls <= max_retries
    /\ pc = "assemble" => hist.embed_calls >= 1

\* a step of process_file goes on to a later stage or ends the file; the one step
\* that stays where it is is the embedding call that failed and is made again
C29_NoStageAgain ==
    (StageRank(pc) > 0 /\ pc' # "killed") =>
        \/ UNCHANGED vars
        \/ StageRank(pc') > StageRank(pc) /\ fi' = fi
        \/ fi' = fi + 1 /\ hist'.outcomes = Append(hist.outcomes, "failed")
        \/ fi' = fi + 1 /\ hist'.outcomes = Append(hist.outcomes, "failed_embedding")
        \/ pc = "assemble" /\ hist'.outcomes = Append(hist.outcomes, "batched")
        \/ /\ pc = "embedding" /\ pc' = "embedding" /\ fi' = fi
           /\ hist'.embed_calls = hist.embed_calls + 1
           /\ hist'.embed_calls < max_retries

\* C29: in a run every candidate is downloaded once and, when it gets there, passed
\* to the entity extractor once; main and process_file make no stage again, so the
\* one backend call made more than once for a file is the embedding call, 1 to 3 times
C29_NoOrchestratorRetry == []C29_CallsAreCounted /\ [][C29_NoStageAgain]_vars

\* the run ended after a file whose download failed and a file whose embedding took
\* max_retries calls: each was downloaded once
C29_Witness ==
    /\ Finished
    /\ hist.outcomes = <<"failed", "batched">>
    /\ Len(hist.downloads) = 2
    /\ hist.embed_calls = max_retries
    /\ hist.stages = StageOrder

\* the candidate list and the existing keys are those of the one lookup
C30_OneLookup ==
    /\ hist.lookups <= 1
    /\ Listed => files_to_process = apply_limit(filter_files(corpus, existing_paths), args.limit)
    /\ (Listed /\ ~args.reprocess) => existing_paths \subseteq IndexPaths

\* the existing keys are read at get_existing alone, and once the candidates are
\* listed neither the keys nor the list change, whatever is written to the index
C30_NoRefresh ==
    /\ (hist'.lookups # hist.lookups /\ pc # "idle") => pc = "get_existing"
    /\ (Listed /\ Listed') =>
           /\ existing_paths' = existing_paths
           /\ files_to_process' = files_to_process
           /\ hist'.lookups = hist.lookups

\* C30: the existing keys are read at most once in a run, before the listing is
\* filtered, and not again: a document that this run or another writer stores
\* during the run does not change the run's candidate list
C30_ExistingKeysReadOnce == []C30_OneLookup /\ [][C30_NoRefresh]_vars

\* the run downloaded a file whose document another writer had stored after the
\* lookup, and a batch of its own is written
C30_Witness ==
    /\ ~args.reprocess
    /\ hist.lookups = 1
    /\ pc = "extract_text"
    /\ hist.flushes # <<>>
    /\ file_path_of(CurFile) \in IndexPaths
    /\ file_path_of(CurFile) \notin existing_paths

\* the create calls that generate made and that raised
FailedCalls ==
    {k \in 1..Len(fout.result.sent) : ~fin.answers[k].ok}

\* C31: generate sleeps after every failed attempt but the last one it is allowed,
\* 1 second after the first failure and twice the wait before after every later
\* one (2^attempt seconds, attempt counted from 0); it does not sleep after the
\* final failed attempt nor after an attempt that succeeded
C31_BackoffDoubles ==
    fout.component = "generate" =>
        LET r == fout.result
        IN  /\ Len(r.waits) = Cardinality({k \in FailedCalls : k < fin.max_retries})
            /\ \A k \in 1..Len(r.waits) :
                   r.waits[k] = IF k = 1 THEN 1 ELSE 2 * r.waits[k - 1]
            /\ r.raised => /\ FailedCalls = 1..fin.max_retries
                           /\ Len(r.waits) = fin.max_retries - 1
            /\ r.value # None => /\ FailedCalls = 1..(Len(r.sent) - 1)
                                 /\ Len(r.waits) = Len(r.sent) - 1

\* with the default max_retries every call failed: generate slept 1 s and 2 s and
\* raised after the third call
C31_Witness ==
    /\ fout.component = "generate"
    /\ fin.max_retries = max_retries
    /\ fout.result.raised
    /\ Len(fout.result.sent) = max_retries
    /\ fout.result.waits = <<1, 2>>

\* the five labels of build_text_for_embedding, in the order of the claim
SECTION_LABELS ==
    << <<"S","u","m","m","a","r","y",":"," ">>,
       <<"P","e","o","p","l","e"," ","m","e","n","t","i","o","n","e","d",":"," ">>,
       <<"L","o","c","a","t","i","o","n","s",":"," ">>,
       <<"D","a","t","e","s",":"," ">>,
       <<"C","o","n","t","e","n","t",":"," ">> >>

\* the sections of a built text: the pieces between the blank lines
SectionsOf(text) ==
    LET seps == {i \in 1..(Len(text) - 1) : text[i] = "\n" /\ text[i + 1] = "\n"}
        pieces == SplitAt(text, seps)
    IN  [k \in 1..Len(pieces) |-> IF k = 1 THEN pieces[k] ELSE Tail(pieces[k])]

\* the sources of a build call that are not empty, as positions in SECTION_LABELS
SourcesGiven ==
    {k \in 1..5 :
        CASE k = 1 -> fin.summary.v # <<>>
          [] k = 2 -> fin.people.v # <<>>
          [] k = 3 -> fin.locations.v # <<>>
          [] k = 4 -> fin.dates.v # <<>>
          [] k = 5 -> fin.ocr_content # <<>>}

\* the text of section j after its label
SectionBody(sections, j) ==
    SubSeq(sections[j], Len(SECTION_LABELS[Sorted(SourcesGiven)[j]]) + 1, Len(sections[j]))

\* C33: build_text_for_embedding returns the labeled sections of the sources that
\* are not empty, in the order summary, people, locations, dates, text, and no
\* other section; the text section holds the first 5000 characters of the text,
\* or all of it when it is shorter; the result is empty when every source is empty
C33_SectionsInOrder ==
    fout.component = "build_text_for_embedding" =>
        LET text == fout.result.text
            given == Sorted(SourcesGiven)
            sections == SectionsOf(text)
        IN  /\ ~fout.result.raised
            /\ (SourcesGiven = {}) <=> (text = <<>>)
            /\ SourcesGiven # {} =>
                   /\ Len(sections) = Len(given)
                   /\ \A j \in 1..Len(given) :
                          /\ StartsWith(sections[j], SECTION_LABELS[given[j]])
                          /\ given[j] = 1 => SectionBody(sections, j) = fin.summary.v
                          /\ given[j] = 2 =>
                                 \A i \in 1..Len(fin.people.v) :
                                     Contains(SectionBody(sections, j), fin.people.v[i].v)
                          /\ given[j] = 5 =>
                                 /\ Len(SectionBody(sections, j)) <= ocr_preview_chars
                                 /\ IsPrefix(SectionBody(sections, j), fin.ocr_content)
                                 /\ Len(SectionBody(sections, j))
                                        = Min(Len(fin.ocr_content), ocr_preview_chars)

\* a text of more than 5000 characters was built with a summary and dates but
\* neither people nor locations: three sections, the last one 5000 characters long
C33_Witness ==
    /\ fout.component = "build_text_for_embedding"
    /\ SourcesGiven = {1, 4, 5}
    /\ Len(fin.ocr_content) > ocr_preview_chars
    /\ Len(SectionsOf(fout.result.text)) = 3
    /\ Len(SectionsOf(fout.result.text)[3]) = Len(SECTION_LABELS[5]) + ocr_preview_chars

\* C34: every text generate sends to the embedding backend has at most 30000
\* characters: it is the text it was given when that has at most 30000 characters
\* and its first 30000 characters otherwise, the same at every attempt
C34_InputWithinBudget ==
    fout.component = "generate" =>
        \A k \in 1..Len(fout.result.sent) :
            /\ Len(fout.result.sent[k]) <= embed_max_chars
            /\ fout.result.sent[k]
                   = IF Len(fin.text) <= embed_max_chars THEN fin.text
                     ELSE SubSeq(fin.text, 1, embed_max_chars)

\* a text of more than 30000 characters was sent three times, 30000 characters long
C34_Witness ==
    /\ fout.component = "generate"
    /\ Len(fin.text) > embed_max_chars
    /\ Len(fout.result.sent) = 3
    /\ \A k \in 1..3 : Len(fout.result.sent[k]) = embed_max_chars

\* C39: when generate returns, for whatever max_retries it was called with, it
\* returns the vector of one of the backend's answers; otherwise it raises
C39_GenerateReturnsVectorOrRaises ==
    fout.component = "generate" =>
        \/ fout.result.raised
        \/ /\ fout.result.value.t = "list"
           /\ \E k \in 1..Len(fin.answers) :
                  /\ fin.answers[k].ok
                  /\ fout.result.value.v = fin.answers[k].embedding

\* the keys of the record extract returns
ENTITY_KEYS == {"people", "locations", "dates", "summary", "publication_date"}

\* C32: for a reply that is a JSON object, the record extract returns has the
\* five keys people, locations, dates, summary and publication_date and no other;
\* a key the object has carries the object's value, a key it lacks carries the
\* empty list (people, locations, dates) or the empty string (summary,
\* publication_date)
C32_MissingKeysDefault ==
    (/\ fout.component = "extract"
     /\ fin.reply.kind = "json"
     /\ fin.reply.value.t = "obj") =>
        LET given == fin.reply.value.v
            r == fout.result
        IN  /\ DOMAIN r = ENTITY_KEYS
            /\ \A key \in ENTITY_KEYS \cap DOMAIN given : r[key] = given[key]
            /\ \A key \in {"people", "locations", "dates"} \ DOMAIN given :
                   r[key] = [t |-> "list", v |-> <<>>]
            /\ \A key \in {"summary", "publication_date"} \ DOMAIN given :
                   r[key] = [t |-> "str", v |-> <<>>]

\* the object had people and a key of its own, and lacked the four other keys
C32_Witness ==
    /\ fout.component = "extract"
    /\ fin.reply.kind = "json"
    /\ fin.reply.value.t = "obj"
    /\ DOMAIN fin.reply.value.v = {"people", "confidence"}
    /\ fin.reply.value.v["people"].t = "list"
    /\ fin.reply.value.v["people"].v # <<>>
    /\ fout.result.people = fin.reply.value.v["people"]
    /\ fout.result.summary = [t |-> "str", v |-> <<>>]
    /\ fout.result.dates = [t |-> "list", v |-> <<>>]

\* the number of documents on page j of a collection of n documents
PageLen(n, j) == Min(per_page, Max(0, n - (j - 1) * per_page))

\* C40: get_existing_file_paths ends on every collection: it asks for the pages
\* one after the other as long as they are full, stops at the first page that is
\* empty or has fewer than 250 documents, and so makes at most floor(n/250) + 1
\* search requests on a collection of n documents
C40_PaginationStops ==
    (fout.component = "get_existing_file_paths" /\ fin.exists) =>
        LET r == fout.result
            n == Len(fin.index)
            last == Len(r.requests)
        IN  /\ last >= 1
            /\ last = r.pages
            /\ last <= (n \div per_page) + 1
            /\ \A j \in 1..(last - 1) : PageLen(n, j) = per_page
            /\ PageLen(n, last) < per_page

\* a collection of one full page and one document more: the loop stopped at the
\* second page, which is not empty
C40_Witness ==
    /\ fout.component = "get_existing_file_paths"
    /\ fin.exists
    /\ Len(fin.index) = per_page + 1
    /\ fout.result.requests = <<1, 2>>
    /\ PageLen(Len(fin.index), 2) = 1

\* the file_path values of the documents of a batch, in order
PathsOf(documents) == [k \in 1..Len(documents) |-> documents[k].file_path]

\* main is between two passes of its loop over files_to_process, or just after
\* the last pass
BetweenFiles == pc \in {"download", "final_flush"}

\* the candidates whose pass of the loop ended with a document
AssembledFiles ==
    {file_path_of(files_to_process[k]) :
        k \in {j \in 1..Len(hist.outcomes) : hist.outcomes[j] = "batched"}}

\* C36: with a batch size B >= 1, between two passes of the loop the pending batch
\* holds fewer than B documents, all of them documents of files that were
\* assembled in this run; the number of files handled so far is the number of
\* documents appended so far plus failed_count; and no index_documents call is
\* made with an empty batch
C36_PendingBatchInvariant ==
    /\ \A k \in 1..Len(hist.flushes) : hist.flushes[k] >= 1
    /\ (BetweenFiles /\ args.batch_size >= 1) =>
           /\ Len(processed_documents) < args.batch_size
           /\ Range(PathsOf(processed_documents)) \subseteq AssembledFiles
           /\ fi - 1 = Len(hist.batched) + failed_count
           /\ Len(hist.outcomes) = fi - 1

\* with a batch size of 2 the loop ended after a file that failed and a file that
\* was assembled: one document is pending, and nothing was written yet
C36_Witness ==
    /\ pc = "final_flush"
    /\ args.batch_size = 2
    /\ hist.outcomes = <<"failed", "batched">>
    /\ Len(processed_documents) = 1
    /\ failed_count = 1
    /\ hist.flushes = <<>>

\* C37: the documents passed to index_documents so far are the first of the
\* documents assembled so far, in the order of their assembly, each once, and the
\* others are the pending batch; when the run gets to its summary every assembled
\* document was passed to index_documents
C37_SubmittedOnce ==
    /\ (Running /\ pc \notin {"summary"}) =>
           hist.batched = hist.submitted \o PathsOf(processed_documents)
    /\ pc \in {"summary", "done"} => hist.submitted = hist.batched
    /\ Len(hist.submitted) = Sum(hist.flushes)
    /\ NoDuplicates(hist.submitted)

\* a run with a batch size of 1 over two candidates ended: two flushes, one
\* document each, in the order of the listing
C37_Witness ==
    /\ Finished
    /\ args.batch_size = 1
    /\ hist.flushes = <<1, 1>>
    /\ hist.outcomes = <<"batched", "batched">>
    /\ hist.submitted = <<file_path_of(files_to_process[1]), file_path_of(files_to_process[2])>>

\* the positions of the documents the maintenance loop has a folder for
ToUpdate ==
    {k \in 1..Len(fin.index) :
        /\ fin.index[k].drive_file_id # <<>>
        /\ fin.index[k].drive_file_id \in DOMAIN fin.file_to_path}

\* C35: update_document does not raise: it returns true when the server took the
\* update and false when it did not.  So update_typesense_documents ends without
\* an exception after it called update_document for every document it has a
\* folder for, in order, whichever of the calls failed; it counts the calls that
\* returned true and no other; a document whose update failed is as it was, and a
\* document whose update was taken has the new folder_path
C35_FailedUpdateIsContained ==
    fout.component = "update_typesense_documents" =>
        LET r == fout.result
            n == Len(fin.index)
        IN  /\ ~r.raised
            /\ Len(r.calls) = Cardinality(ToUpdate)
            /\ \A j \in 1..Len(r.calls) : r.calls[j] = fin.index[Sorted(ToUpdate)[j]].id
            /\ r.updated = Cardinality({k \in ToUpdate : fin.oks[k]})
            /\ Len(r.index) = n
            /\ \A k \in 1..n :
                   r.index[k] = IF k \in ToUpdate /\ fin.oks[k]
                                THEN [fin.index[k] EXCEPT
                                          !.folder_path =
                                              fin.file_to_path[fin.index[k].drive_file_id]]
                                ELSE fin.index[k]

\* of three documents with folders the update of the first failed: the two others
\* were updated all the same, and two updates were counted
C35_Witness ==
    /\ fout.component = "update_typesense_documents"
    /\ Len(fin.index) = 3
    /\ ToUpdate = {1, 2, 3}
    /\ fin.oks = <<FALSE, TRUE, TRUE>>
    /\ Len(fout.result.calls) = 3
    /\ fout.result.updated = 2
    /\ fout.result.index[1] = fin.index[1]
    /\ fout.result.index[3].folder_path = FolderOf(3)

-----------------------------------------------------------------------------
(* SpecRetry: the pipeline run again and again over SmallCorpus, without         *)
(* --reprocess and --dry-run.  As long as the backends fail, downloads,          *)
(* embedding calls and import_ calls fail at will, in up to MaxRuns processes;   *)
(* from some moment on they do not fail any more, and processes are started as   *)
(* long as a listed file has no document.  The counters runs and clock stay at   *)
(* MaxRuns once they get there.                                                  *)

BackendsFailing == [component |-> "backends", failing |-> TRUE]
BackendsHealthy == [component |-> "backends", failing |-> FALSE]

RetryArgChoices ==
    {[reprocess |-> FALSE, dry_run |-> FALSE, limit |-> l, batch_size |-> b,
      export_csv |-> None] : l \in {None, Num(1)}, b \in 1..MaxBatch}

\* the operator runs main() once more
StartRetryRun(a) ==
    /\ ~Running
    /\ runs < MaxRuns \/ (fin = BackendsHealthy /\ ~(ListedPaths \subseteq IndexPaths))
    /\ runs' = Min(runs + 1, MaxRuns)
    /\ clock' = Min(clock + 1, MaxRuns)
    /\ args' = a
    /\ pc' = "init_clients"
    /\ existing_paths' = {}
    /\ files_to_process' = <<>>
    /\ processed_documents' = <<>>
    /\ failed_count' = 0
    /\ fi' = 0
    /\ cur' = NoFile
    /\ report' = NoReport
    /\ hist' = [NoHist EXCEPT !.index_at_start = IndexPaths,
                              !.docs_at_start = Len(index),
                              !.left_over = {file_path_of(f) : f \in Range(files_to_process)}
                                                \ IndexPaths]
    /\ UNCHANGED <<corpus, collection_exists, index, fin, fout>>

\* the backends stop failing
Recover ==
    /\ fin = BackendsFailing
    /\ fin' = BackendsHealthy
    /\ UNCHANGED <<corpus, collection_exists, index, clock, runs, pc, args, existing_paths,
                   files_to_process, processed_documents, failed_count, fi, cur, report,
                   hist, fout>>

\* what a backend call can do: fail only as long as the backends fail
BackendAnswers == IF fin = BackendsFailing THEN BOOLEAN ELSE {TRUE}

ImportAnswers(documents) ==
    IF fin = BackendsFailing THEN FlushOutcomes(documents) ELSE {AllOk(documents)}

InitRetry ==
    /\ corpus = SmallCorpus
    /\ PipelineIdle
    /\ fin = BackendsFailing
    /\ fout = NoCall

NextRetry ==
    \/ \E a \in RetryArgChoices : StartRetryRun(a)
    \/ InitClients(TRUE)
    \/ CreateCollection
    \/ GetExisting
    \/ ListAndFilter(TRUE)
    \/ \E ok \in BackendAnswers : Download(ok, GoodContent)
    \/ ExtractText
    \/ ExtractEntities(GoodReply)
    \/ \E ok \in BackendAnswers : EmbedAttempt(ok)
    \/ Assemble
    \/ \E outs \in ImportAnswers(processed_documents) : Flush(outs)
    \/ \E outs \in ImportAnswers(processed_documents) : FinalFlush(outs)
    \/ Summary
    \/ Recover

\* a process that was started goes on until it ends, and the operator starts the
\* next one
SpecRetry == InitRetry /\ [][NextRetry]_vars /\ WF_vars(NextRetry)

\* a candidate of the process before whose document was not stored is a candidate
\* again, unless --limit cut the list before it
C38_LeftOverIsCandidate ==
    Listed =>
        \A p \in hist.left_over :
            \/ \E k \in 1..Len(files_to_process) : file_path_of(files_to_process[k]) = p
            \/ Truthy(args.limit) /\ Len(files_to_process) = args.limit.v

\* every listed file that is not excluded by name has a document in the collection
AllIndexed == ListedPaths \subseteq IndexPaths

\* C38: a candidate whose document a run did not store (its processing failed, or
\* the import_ call of its sub-batch failed) is a candidate again in the next run
\* without --reprocess; and when the pipeline is run again and again over the same
\* listing, from the moment the backends stop failing every file that is not
\* excluded by name gets a document in the collection
C38_EventuallyIndexed ==
    /\ []C38_LeftOverIsCandidate
    /\ (fin = BackendsHealthy) ~> AllIndexed

\* the second process, started after the first one lost both its candidates, has
\* the two files as candidates again, and the backends still fail
C38_Witness ==
    /\ runs = 2
    /\ Listed
    /\ fin = BackendsFailing
    /\ Cardinality(hist.left_over) = 2
    /\ index = <<>>
    /\ Len(files_to_process) = 2
    /\ \A k \in 1..2 : file_path_of(files_to_process[k]) \in hist.left_over

====
